---- MODULE Spec2Model ----
(***************************************************************************)
(* ubvff: the Type 1 decoder (ubvff1), the Type 2 decoder (ubvff2) and the *)
(* layer assembler (vecass), as state machines.                            *)
(***************************************************************************)
EXTENDS Integers, Sequences, FiniteSets, TLC

VARIABLES
    prog,           \* which tool (or which function under test) this run is
    svgdump,        \* int svgdump: SVG output requested
    svgDumpState,   \* enum SVGDUMP_STATE svgDumpState
    calls,          \* the emitters on their own: the emit operation the last step invoked
    pc,             \* where main is: "loop", "post" (after the loop) or "done"
    error,          \* the exit status of main (-1 while it runs)
    stateErr,       \* some emit operation has reported a state error
    mon,            \* what the successful emit operations have written so far
    frame,          \* how the commands read so far match the magic header and footer
    title,          \* char title[]: the layer name, NUL (0) terminated
    header,         \* struct BIN_HEADER header (ubvff1), "unset" until read
    color,          \* the fill color, "unset" until read
    strokeColor,    \* the stroke color, "unset" until read
    strokeWidth,    \* the stroke width
    cmdCount,       \* ubvff2: header.params.cmdCount
    cmdCounter,     \* ubvff2: uint16_t cmdCounter
    hasFill,        \* ubvff2: int hasFill, "unset" until assigned
    hasStroke,      \* ubvff2: int hasStroke, "unset" until assigned
    view,           \* viewMinX, viewMinY, viewMaxX, viewMaxY
    patch,          \* ubvff2: the viewport field written over the placeholder, <<>> if none
    dumpList,       \* vecass: dumpList[0 .. dumpListPos-1]
    depth,          \* vecass: int depth
    files,          \* vecass: the command files and fragments on disk
    fout,           \* the output file: its bytes and the write cursor
    leafRefs,       \* vecass: the include references the scan reached, in order
    input,          \* the arguments of the function under test
    output          \* <<its result>>, <<>> before the call

emitVars == <<svgdump, svgDumpState, calls, stateErr, mon>>

dataVars == <<title, header, color, strokeColor, strokeWidth>>

decVars == <<svgdump, svgDumpState, calls, pc, error, stateErr, mon, frame,
             title, header, color, strokeColor, strokeWidth>>

dec2Vars == <<cmdCount, cmdCounter, hasFill, hasStroke, view, patch>>

asmVars == <<dumpList, depth, files, fout, leafRefs>>

funVars == <<input, output>>

vars == <<prog, svgdump, svgDumpState, calls, pc, error, stateErr, mon, frame,
          title, header, color, strokeColor, strokeWidth,
          cmdCount, cmdCounter, hasFill, hasStroke, view, patch,
          dumpList, depth, files, fout, leafRefs, input, output>>

-----------------------------------------------------------------------------
(* enum SVGDUMP_STATE; ubvff2 has the same names without the layer states.   *)

DUMPSTATE_BEGIN == "BEGIN"
DUMPSTATE_AFTER_HEADER == "AFTER_HEADER"
DUMPSTATE_AFTER_START_LAYER == "AFTER_START_LAYER"
DUMPSTATE_AFTER_START_PATH == "AFTER_START_PATH"
DUMPSTATE_AFTER_LINE == "AFTER_LINE"
DUMPSTATE_AFTER_CLOSE_PATH == "AFTER_CLOSE_PATH"
DUMPSTATE_AFTER_END_PATH == "AFTER_END_PATH"
DUMPSTATE_AFTER_END_LAYER == "AFTER_END_LAYER"
DUMPSTATE_AFTER_FOOTER == "AFTER_FOOTER"

SVGDUMP_STATE ==
    { DUMPSTATE_BEGIN, DUMPSTATE_AFTER_HEADER, DUMPSTATE_AFTER_START_LAYER,
      DUMPSTATE_AFTER_START_PATH, DUMPSTATE_AFTER_LINE, DUMPSTATE_AFTER_CLOSE_PATH,
      DUMPSTATE_AFTER_END_PATH, DUMPSTATE_AFTER_END_LAYER, DUMPSTATE_AFTER_FOOTER }

SVGDUMP_STATE2 ==
    { DUMPSTATE_BEGIN, DUMPSTATE_AFTER_HEADER,
      DUMPSTATE_AFTER_START_PATH, DUMPSTATE_AFTER_LINE, DUMPSTATE_AFTER_CLOSE_PATH,
      DUMPSTATE_AFTER_END_PATH, DUMPSTATE_AFTER_FOOTER }

-----------------------------------------------------------------------------
(* The values the inputs are drawn from.                                    *)

MaxTitle == 1       \* longest layer name read
MaxLines == 2       \* largest point count of a LINE command
MaxPts == 4         \* largest point count of a CUBIC command

Colors == {"c1", "c2"}

Widths == {16384, 32768}

TitleChars == {65}

-----------------------------------------------------------------------------
(* The values of the variables a run does not use.                          *)

(* an int that was never assigned, and one that holds b *)
Unset == [set |-> FALSE, val |-> FALSE]

Val(b) == [set |-> TRUE, val |-> b]

NoFile == [bytes |-> <<>>, pos |-> 0]

Dec2Idle ==
    /\ cmdCount = 0
    /\ cmdCounter = 0
    /\ hasFill = Unset
    /\ hasStroke = Unset
    /\ view = [minX |-> 0, minY |-> 0, maxX |-> 0, maxY |-> 0]
    /\ patch = <<>>

AsmIdle ==
    /\ dumpList = <<>>
    /\ depth = 0
    /\ files = <<>>
    /\ fout = NoFile
    /\ leafRefs = <<>>

-----------------------------------------------------------------------------
(* The result of one emit operation: its return value, the state it leaves, *)
(* what it wrote (op = "" when nothing was written) and why it failed.      *)

Tok(op, fill, stroke, width) == [op |-> op, fill |-> fill, stroke |-> stroke, width |-> width]

Plain(op) == Tok(op, "", "", 0)

NoTok == Plain("")

Disabled(st) == [ret |-> 0, st |-> st, tok |-> NoTok, err |-> "off"]

(* A mutant of StateError: the emitter is put back to the start. *)
StateError_Reset(st) == [ret |-> 1, st |-> DUMPSTATE_BEGIN, tok |-> NoTok, err |-> "state"]

StateError(st) == [ret |-> 1, st |-> st, tok |-> NoTok, err |-> "state"]

IoError(st) == [ret |-> 1, st |-> st, tok |-> NoTok, err |-> "io"]

Wrote(st, tok) == [ret |-> 0, st |-> st, tok |-> tok, err |-> "none"]

(* One entry of calls: the operation, the state it was invoked in and its result. *)
Call(op, from, r) ==
    [op |-> op, from |-> from, to |-> r.st, ret |-> r.ret, err |-> r.err, tok |-> r.tok]

-----------------------------------------------------------------------------
(* ubvff1.c: the emit operations.  dump is svgdump, st is svgDumpState and  *)
(* ok says whether fprintf succeeded (r >= 0).                              *)

dumpSVGHeader(dump, st, ok) ==
    IF ~dump THEN Disabled(st)
    ELSE IF st # DUMPSTATE_BEGIN THEN StateError(st)
    ELSE IF ~ok THEN IoError(st)
    ELSE Wrote(DUMPSTATE_AFTER_HEADER, Plain("header"))

dumpSVGStartLayer(dump, st, ok) ==
    IF ~dump THEN Disabled(st)
    ELSE IF st # DUMPSTATE_AFTER_HEADER /\ st # DUMPSTATE_AFTER_END_LAYER THEN StateError(st)
    ELSE IF ~ok THEN IoError(st)
    ELSE Wrote(DUMPSTATE_AFTER_START_LAYER, Plain("layerStart"))

dumpSVGStartPath(dump, st, ok) ==
    IF ~dump THEN Disabled(st)
    ELSE IF st = DUMPSTATE_AFTER_CLOSE_PATH \/ st = DUMPSTATE_AFTER_LINE
         THEN IF ~ok THEN IoError(st)
              ELSE Wrote(DUMPSTATE_AFTER_START_PATH, Plain("move"))
    ELSE IF st # DUMPSTATE_AFTER_START_LAYER /\ st # DUMPSTATE_AFTER_END_PATH
         THEN StateError(st)
    ELSE IF ~ok THEN IoError(st)
    ELSE Wrote(DUMPSTATE_AFTER_START_PATH, Plain("path"))

dumpSVGCubic(dump, st, ok) ==
    IF ~dump THEN Disabled(st)
    ELSE IF st # DUMPSTATE_AFTER_START_PATH /\ st # DUMPSTATE_AFTER_LINE THEN StateError(st)
    ELSE IF ~ok THEN IoError(st)
    ELSE Wrote(DUMPSTATE_AFTER_LINE, Plain("cubic"))

dumpSVGLine(dump, st, ok) ==
    IF ~dump THEN Disabled(st)
    ELSE IF st # DUMPSTATE_AFTER_START_PATH /\ st # DUMPSTATE_AFTER_LINE THEN StateError(st)
    ELSE IF ~ok THEN IoError(st)
    ELSE Wrote(DUMPSTATE_AFTER_LINE, Plain("line"))

(* A close that is also accepted right after a path start. *)
dumpSVGClosePath_AfterStart(dump, st, ok) ==
    IF ~dump THEN Disabled(st)
    ELSE IF st # DUMPSTATE_AFTER_LINE /\ st # DUMPSTATE_AFTER_START_PATH THEN StateError(st)
    ELSE IF ~ok THEN IoError(st)
    ELSE Wrote(DUMPSTATE_AFTER_CLOSE_PATH, Plain("close"))

(* A close that is also accepted between two layers. *)
dumpSVGClosePath_AfterLayer(dump, st, ok) ==
    IF ~dump THEN Disabled(st)
    ELSE IF st # DUMPSTATE_AFTER_LINE /\ st # DUMPSTATE_AFTER_END_LAYER THEN StateError(st)
    ELSE IF ~ok THEN IoError(st)
    ELSE Wrote(DUMPSTATE_AFTER_CLOSE_PATH, Plain("close"))

dumpSVGClosePath(dump, st, ok) ==
    IF ~dump THEN Disabled(st)
    ELSE IF st # DUMPSTATE_AFTER_LINE THEN StateError(st)
    ELSE IF ~ok THEN IoError(st)
    ELSE Wrote(DUMPSTATE_AFTER_CLOSE_PATH, Plain("close"))

(* What a path end writes: fill="none" or the fill color, stroke="none" or   *)
(* the stroke color with the stroke width.                                  *)
PathEndTok(fillOn, fillColor, strokeOn, width, strokeCol) ==
    Tok("pathEnd", IF fillOn THEN fillColor ELSE "none",
                   IF strokeOn THEN strokeCol ELSE "none",
                   IF strokeOn THEN width ELSE 0)

dumpSVGEndPath(dump, st, fillOn, fillColor, strokeOn, width, strokeCol, ok) ==
    IF ~dump THEN Disabled(st)
    ELSE IF st # DUMPSTATE_AFTER_LINE /\ st # DUMPSTATE_AFTER_CLOSE_PATH THEN StateError(st)
    ELSE IF ~ok THEN IoError(st)
    ELSE Wrote(DUMPSTATE_AFTER_END_PATH,
               PathEndTok(fillOn, fillColor, strokeOn, width, strokeCol))

(* A layer end that is also accepted while a path is being drawn. *)
dumpSVGEndLayer_InPath(dump, st, ok) ==
    IF ~dump THEN Disabled(st)
    ELSE IF st # DUMPSTATE_AFTER_END_PATH /\ st # DUMPSTATE_AFTER_START_LAYER
            /\ st # DUMPSTATE_AFTER_LINE THEN StateError(st)
    ELSE IF ~ok THEN IoError(st)
    ELSE Wrote(DUMPSTATE_AFTER_END_LAYER, Plain("layerEnd"))

dumpSVGEndLayer(dump, st, ok) ==
    IF ~dump THEN Disabled(st)
    ELSE IF st # DUMPSTATE_AFTER_END_PATH /\ st # DUMPSTATE_AFTER_START_LAYER THEN StateError(st)
    ELSE IF ~ok THEN IoError(st)
    ELSE Wrote(DUMPSTATE_AFTER_END_LAYER, Plain("layerEnd"))

(* A footer with the source state of the Type 2 emitter. *)
dumpSVGFooter_AfterEndPath(dump, st, ok) ==
    IF ~dump THEN Disabled(st)
    ELSE IF st # DUMPSTATE_AFTER_END_PATH THEN StateError(st)
    ELSE IF ~ok THEN IoError(st)
    ELSE Wrote(DUMPSTATE_AFTER_FOOTER, Plain("footer"))

dumpSVGFooter(dump, st, ok) ==
    IF ~dump THEN Disabled(st)
    ELSE IF st # DUMPSTATE_AFTER_END_LAYER THEN StateError(st)
    ELSE IF ~ok THEN IoError(st)
    ELSE Wrote(DUMPSTATE_AFTER_FOOTER, Plain("footer"))

-----------------------------------------------------------------------------
(* vecass.c (ubvff2 part): the emit operations of the Type 2 emitter.        *)

dumpSVGHeader2(dump, st, ok) ==
    IF ~dump THEN Disabled(st)
    ELSE IF st # DUMPSTATE_BEGIN THEN StateError(st)
    ELSE IF ~ok THEN IoError(st)
    ELSE Wrote(DUMPSTATE_AFTER_HEADER, Plain("header"))

dumpSVGStartPath2(dump, st, ok) ==
    IF ~dump THEN Disabled(st)
    ELSE IF st = DUMPSTATE_AFTER_CLOSE_PATH \/ st = DUMPSTATE_AFTER_LINE
         THEN IF ~ok THEN IoError(st)
              ELSE Wrote(DUMPSTATE_AFTER_START_PATH, Plain("move"))
    ELSE IF st # DUMPSTATE_AFTER_HEADER /\ st # DUMPSTATE_AFTER_END_PATH
         THEN StateError(st)
    ELSE IF ~ok THEN IoError(st)
    ELSE Wrote(DUMPSTATE_AFTER_START_PATH, Plain("path"))

dumpSVGCubic2(dump, st, ok) ==
    IF ~dump THEN Disabled(st)
    ELSE IF st # DUMPSTATE_AFTER_START_PATH /\ st # DUMPSTATE_AFTER_LINE THEN StateError(st)
    ELSE IF ~ok THEN IoError(st)
    ELSE Wrote(DUMPSTATE_AFTER_LINE, Plain("cubic"))

dumpSVGLine2(dump, st, ok) ==
    IF ~dump THEN Disabled(st)
    ELSE IF st # DUMPSTATE_AFTER_START_PATH /\ st # DUMPSTATE_AFTER_LINE THEN StateError(st)
    ELSE IF ~ok THEN IoError(st)
    ELSE Wrote(DUMPSTATE_AFTER_LINE, Plain("line"))

dumpSVGClosePath2(dump, st, ok) ==
    IF ~dump THEN Disabled(st)
    ELSE IF st # DUMPSTATE_AFTER_LINE /\ st # DUMPSTATE_AFTER_START_PATH THEN StateError(st)
    ELSE IF ~ok THEN IoError(st)
    ELSE Wrote(DUMPSTATE_AFTER_CLOSE_PATH, Plain("close"))

dumpSVGEndPath2(dump, st, fillOn, fillColor, strokeOn, width, strokeCol, ok) ==
    IF ~dump THEN Disabled(st)
    ELSE IF st # DUMPSTATE_AFTER_LINE /\ st # DUMPSTATE_AFTER_CLOSE_PATH THEN StateError(st)
    ELSE IF ~ok THEN IoError(st)
    ELSE Wrote(DUMPSTATE_AFTER_END_PATH,
               PathEndTok(fillOn, fillColor, strokeOn, width, strokeCol))

dumpSVGFooter2(dump, st, ok) ==
    IF ~dump THEN Disabled(st)
    ELSE IF st # DUMPSTATE_AFTER_END_PATH THEN StateError(st)
    ELSE IF ~ok THEN IoError(st)
    ELSE Wrote(DUMPSTATE_AFTER_FOOTER, Plain("footer"))

-----------------------------------------------------------------------------
(* The document written so far, as the grammar of a well-formed document    *)
(* sees it: hdr and ftr count the headers and footers written, layer says a *)
(* layer is open, path is "none" (no path open), "opened" (opener written,  *)
(* no line or cubic yet) or "drawn"; empty records a path ended without a   *)
(* line or cubic; ok is FALSE once a write breaks the nesting.              *)

MonInit ==
    [hdr |-> 0, ftr |-> 0, layer |-> FALSE, path |-> "none", empty |-> FALSE, ok |-> TRUE]

MonStep(m, tok) ==
    LET open == m.hdr = 1 /\ m.ftr = 0
        inPath == open /\ m.path # "none"
    IN  CASE tok.op = "" -> m
          [] tok.op = "header" ->
                [m EXCEPT !.hdr = IF @ = 0 THEN 1 ELSE 2, !.ok = @ /\ m.hdr = 0]
          [] tok.op = "layerStart" ->
                [m EXCEPT !.layer = TRUE, !.ok = @ /\ open /\ ~m.layer /\ m.path = "none"]
          [] tok.op = "path" ->
                [m EXCEPT !.path = "opened", !.ok = @ /\ open /\ m.path = "none"]
          [] tok.op \in {"line", "cubic"} ->
                [m EXCEPT !.path = "drawn", !.ok = @ /\ inPath]
          [] tok.op \in {"move", "close"} ->
                [m EXCEPT !.ok = @ /\ inPath]
          [] tok.op = "pathEnd" ->
                [m EXCEPT !.path = "none", !.empty = @ \/ m.path = "opened",
                          !.ok = @ /\ inPath]
          [] tok.op = "layerEnd" ->
                [m EXCEPT !.layer = FALSE, !.ok = @ /\ open /\ m.layer /\ m.path = "none"]
          [] tok.op = "footer" ->
                [m EXCEPT !.ftr = IF @ = 0 THEN 1 ELSE 2,
                          !.ok = @ /\ open /\ ~m.layer /\ m.path = "none"]

RECURSIVE MonAll(_, _)
MonAll(m, cs) ==
    IF cs = <<>> THEN m ELSE MonAll(MonStep(m, Head(cs).tok), Tail(cs))

-----------------------------------------------------------------------------
(* The magic framing of a Type 1 file (README: header 00000003 00000000     *)
(* 00000000, footer 0000000D 0000000A 0000000C 00000002 00000015), followed  *)
(* over the commands read: first says no command was read yet, head that the *)
(* first command was START_FILE with two zero words, recent how many of the  *)
(* latest commands are the first commands of the footer, from the emitter    *)
(* state in which that footer began, err and io whether a footer command     *)
(* met a state error or a failed write, eof that a read came back short (the *)
(* file ended before the command was complete).                              *)

MagicFooter == <<13, 10, 12, 2, 21>>

FrameInit ==
    [first |-> TRUE, head |-> FALSE, recent |-> 0, from |-> "", err |-> FALSE,
     io |-> FALSE, eof |-> FALSE]

HasErr(cs, kind) == \E i \in 1..Len(cs) : cs[i].err = kind

FrameStep(f, cmd, magic, st, cs, eof) ==
    LET cont == f.recent < Len(MagicFooter) /\ cmd = MagicFooter[f.recent + 1]
        restart == ~cont /\ cmd = MagicFooter[1]
    IN  [first |-> FALSE,
         head |-> IF f.first THEN magic ELSE f.head,
         recent |-> IF cont THEN f.recent + 1 ELSE IF restart THEN 1 ELSE 0,
         from |-> IF cont /\ f.recent > 0 THEN f.from
                  ELSE IF cont \/ restart THEN st ELSE "",
         err |-> IF cont /\ f.recent > 0 THEN f.err \/ HasErr(cs, "state")
                 ELSE IF cont \/ restart THEN HasErr(cs, "state") ELSE FALSE,
         io |-> IF cont /\ f.recent > 0 THEN f.io \/ HasErr(cs, "io")
                ELSE IF cont \/ restart THEN HasErr(cs, "io") ELSE FALSE,
         eof |-> eof]

-----------------------------------------------------------------------------
(* The emitters on their own: every emit operation may be invoked in every  *)
(* state, as the decoders may invoke it after any command sequence.         *)

InitEmit ==
    /\ prog \in {"emit1", "emit2"}
    /\ svgdump \in BOOLEAN
    /\ svgDumpState = DUMPSTATE_BEGIN
    /\ calls = <<>>
    /\ pc = "idle"
    /\ error = -1
    /\ stateErr = FALSE
    /\ mon = MonInit
    /\ frame = FrameInit
    /\ title = <<>>
    /\ header = "unset"
    /\ color = "unset"
    /\ strokeColor = "unset"
    /\ strokeWidth = 0
    /\ Dec2Idle
    /\ AsmIdle
    /\ input = "none"
    /\ output = <<>>

Invoke(op, r) ==
    /\ svgDumpState' = r.st
    /\ calls' = <<Call(op, svgDumpState, r)>>
    /\ stateErr' = (stateErr \/ r.err = "state")
    /\ mon' = MonStep(mon, r.tok)
    /\ UNCHANGED <<prog, svgdump, pc, error, frame>>
    /\ UNCHANGED dataVars
    /\ UNCHANGED <<dec2Vars, asmVars, funVars>>

EmitHeader ==
    \E ok \in BOOLEAN :
        Invoke("Header", IF prog = "emit1" THEN dumpSVGHeader(svgdump, svgDumpState, ok)
                         ELSE dumpSVGHeader2(svgdump, svgDumpState, ok))

EmitStartLayer ==
    /\ prog = "emit1"
    /\ \E ok \in BOOLEAN : Invoke("LayerStart", dumpSVGStartLayer(svgdump, svgDumpState, ok))

EmitStartPath ==
    \E ok \in BOOLEAN :
        Invoke("PathStart", IF prog = "emit1" THEN dumpSVGStartPath(svgdump, svgDumpState, ok)
                            ELSE dumpSVGStartPath2(svgdump, svgDumpState, ok))

EmitLine ==
    \E ok \in BOOLEAN :
        Invoke("Line", IF prog = "emit1" THEN dumpSVGLine(svgdump, svgDumpState, ok)
                       ELSE dumpSVGLine2(svgdump, svgDumpState, ok))

EmitCubic ==
    \E ok \in BOOLEAN :
        Invoke("Cubic", IF prog = "emit1" THEN dumpSVGCubic(svgdump, svgDumpState, ok)
                        ELSE dumpSVGCubic2(svgdump, svgDumpState, ok))

EmitClosePath ==
    \E ok \in BOOLEAN :
        Invoke("Close", IF prog = "emit1" THEN dumpSVGClosePath(svgdump, svgDumpState, ok)
                        ELSE dumpSVGClosePath2(svgdump, svgDumpState, ok))

EmitEndPath ==
    \E ok \in BOOLEAN, fillOn \in BOOLEAN, strokeOn \in BOOLEAN,
       fc \in Colors, sc \in Colors, w \in Widths :
        Invoke("PathEnd",
               IF prog = "emit1"
               THEN dumpSVGEndPath(svgdump, svgDumpState, fillOn, fc, strokeOn, w, sc, ok)
               ELSE dumpSVGEndPath2(svgdump, svgDumpState, fillOn, fc, strokeOn, w, sc, ok))

EmitEndLayer ==
    /\ prog = "emit1"
    /\ \E ok \in BOOLEAN : Invoke("LayerEnd", dumpSVGEndLayer(svgdump, svgDumpState, ok))

EmitFooter ==
    \E ok \in BOOLEAN :
        Invoke("Footer", IF prog = "emit1" THEN dumpSVGFooter(svgdump, svgDumpState, ok)
                         ELSE dumpSVGFooter2(svgdump, svgDumpState, ok))

NextEmit ==
    \/ EmitHeader
    \/ EmitStartLayer
    \/ EmitStartPath
    \/ EmitLine
    \/ EmitCubic
    \/ EmitClosePath
    \/ EmitEndPath
    \/ EmitEndLayer
    \/ EmitFooter

SpecEmit == InitEmit /\ [][NextEmit]_vars

-----------------------------------------------------------------------------
(* ubvff1.c, main: the command loop.  One step reads one opcode and runs its *)
(* handler to the end; the file is revealed as it is read, every read may    *)
(* come back short (the file ends there).                                    *)

scaleFactor == 32768

TitleSize == 65

TitleBuf == [i \in 1..(MaxTitle + 1) |-> 0]

(* An indeterminate value (an object read before it was ever written) is    *)
(* whatever the build left there: any is any value of the type.             *)
AnyOf(v) == IF v = "unset" THEN Colors ELSE {v}

(* fprintf is reached only with SVG output enabled; it may fail (r < 0). *)
Fprintf == IF svgdump THEN BOOLEAN ELSE {TRUE}

(* What a handler leaves behind: the emitter state st, the emit calls cs it *)
(* made, and whether the loop is left: by a break (brk), or because a read  *)
(* came back short and feof ends the while loop (eof).                      *)
(* blk is empty, or holds the record (Block, Handled) of what the handler    *)
(* has just done.  For the opcodes in input.ops the record is instead the    *)
(* opcode, the emit calls made and whether a read came back short.           *)
Logged(cmd, cs, eof) == [cmd |-> cmd, calls |-> cs, eof |-> eof]

(* What a run observes besides its result: the opcodes ops whose handling is *)
(* recorded, and a command stream follow (opcode, operand count, magic       *)
(* header) that the commands read are compared with.                         *)
Watch(ops, follow) == [ops |-> ops, follow |-> follow]

NoWatch == Watch({}, <<>>)

(* The tokens the emit calls cs have written. *)
Written(cs) ==
    LET wrote(c) == c.tok.op # ""
        W == SelectSeq(cs, wrote)
    IN  [i \in 1..Len(W) |-> W[i].tok]

(* While the commands read so far are the first commands of input.follow,    *)
(* each read in full, the record holds how many they are (pos), the tokens   *)
(* written for them (toks) and whether a write failed (io); after the first  *)
(* command that differs from the stream there is no record.                  *)
Followed(cmd, n, magic, cs, eof) ==
    LET pos == IF frame.first THEN 0 ELSE IF output = <<>> THEN -1 ELSE output[1].pos
        toks == IF frame.first \/ output = <<>> THEN <<>> ELSE output[1].toks
        io == IF frame.first \/ output = <<>> THEN FALSE ELSE output[1].io
    IN  IF pos >= 0 /\ pos < Len(input.follow) /\ ~eof
           /\ input.follow[pos + 1] = <<cmd, n, magic>>
        THEN <<[cmd |-> cmd, pos |-> pos + 1, toks |-> toks \o Written(cs),
                io |-> io \/ HasErr(cs, "io")]>>
        ELSE <<>>

(* n is the operand count the command carries (title length, point count) *)
EndRead1(cmd, n, magic, st, cs, brk, eof, blk) ==
    /\ svgDumpState' = st
    /\ calls' = <<>>
    /\ stateErr' = (stateErr \/ HasErr(cs, "state"))
    /\ mon' = MonAll(mon, cs)
    /\ frame' = FrameStep(frame, cmd, magic, svgDumpState, cs, eof)
    /\ pc' = IF brk \/ eof THEN "post" ELSE "loop"
    /\ output' = IF input.follow # <<>> THEN Followed(cmd, n, magic, cs, eof)
                  ELSE IF blk = <<>> /\ cmd \in input.ops THEN <<Logged(cmd, cs, eof)>>
                  ELSE blk
    /\ UNCHANGED <<prog, svgdump, error, input>>
    /\ UNCHANGED <<dec2Vars, asmVars>>

EndBlock1(cmd, magic, st, cs, brk, eof, blk) == EndRead1(cmd, 0, magic, st, cs, brk, eof, blk)

EndStep1(cmd, magic, st, cs, brk, eof) == EndBlock1(cmd, magic, st, cs, brk, eof, <<>>)

(* The emit calls cs the handler of command cmd made *)
Handled(cmd, cs) == [cmd |-> cmd, calls |-> cs]

(* What a handler did with an operand block of count points, kept when the   *)
(* emitter was in a state that accepts a segment, every read succeeded       *)
(* (clean) and every call succeeded: how many emit calls it made and how     *)
(* many of them wrote a segment.                                             *)
InPath(dump, st) == dump /\ (st = DUMPSTATE_AFTER_START_PATH \/ st = DUMPSTATE_AFTER_LINE)

Block(cmd, count, cs, clean) ==
    IF clean /\ \A i \in 1..Len(cs) : cs[i].ret = 0
    THEN <<[cmd |-> cmd,
            count |-> count,
            called |-> Len(cs),
            segments |-> Cardinality({i \in 1..Len(cs) : cs[i].tok.op # ""})]>>
    ELSE <<>>

InLoop1 == prog = "ubvff1" /\ pc = "loop"

(* bo_fread(&cmd,4,1,f) != 1: break *)
ReadCmdFails ==
    /\ InLoop1
    /\ pc' = "post"
    /\ calls' = <<>>
    /\ frame' = [frame EXCEPT !.eof = TRUE]
    /\ UNCHANGED <<prog, svgdump, svgDumpState, error, stateErr, mon>>
    /\ UNCHANGED dataVars
    /\ output' = <<>>
    /\ UNCHANGED <<dec2Vars, asmVars, input>>

CMD_00_LAYER_SEP ==
    /\ InLoop1
    /\ EndStep1(0, FALSE, svgDumpState, <<>>, FALSE, FALSE)
    /\ UNCHANGED dataVars

CMD_0C_NOP ==
    /\ InLoop1
    /\ EndStep1(12, FALSE, svgDumpState, <<>>, FALSE, FALSE)
    /\ UNCHANGED dataVars

(* A mutant of UnknownOperands: one word is read, as for 0x0E and 0x0F. *)
UnknownOperands_Flag(cmd) == 1

(* else { printf("\n"); }: the number of operand words read *)
UnknownOperands(cmd) == 0

(* an opcode that is not in cmdTable: the final else *)
CMD_UNKNOWN ==
    /\ InLoop1
    /\ \E cmd \in {17, 22} :
       \E nread \in 0..UnknownOperands(cmd) :
          EndStep1(cmd, FALSE, svgDumpState, <<>>, FALSE, nread < UnknownOperands(cmd))
    /\ UNCHANGED dataVars

(* The emit calls of START_LAYER: the header when the emitter is at BEGIN,  *)
(* then the layer start; the first failure breaks.                          *)
StartLayerCalls(dump, st, ok1, ok2) ==
    LET h == dumpSVGHeader(dump, st, ok1)
        hs == IF st = DUMPSTATE_BEGIN THEN <<Call("Header", st, h)>> ELSE <<>>
        st1 == IF st = DUMPSTATE_BEGIN THEN h.st ELSE st
        l == dumpSVGStartLayer(dump, st1, ok2)
    IN  IF st = DUMPSTATE_BEGIN /\ h.ret # 0
        THEN [st |-> h.st, calls |-> hs, brk |-> TRUE]
        ELSE [st |-> l.st, calls |-> hs \o <<Call("LayerStart", st1, l)>>, brk |-> l.ret # 0]

CMD_01_START_LAYER ==
    /\ InLoop1
    /\ \/ \* the read of the title length is short: break
          /\ EndStep1(1, FALSE, svgDumpState, <<>>, FALSE, TRUE)
          /\ UNCHANGED dataVars
       \/ \* strLength > sizeof(title)-1, title string overflow: return 1
          /\ pc' = "done"
          /\ error' = 1
          /\ calls' = <<>>
          /\ frame' = FrameStep(frame, 1, FALSE, svgDumpState, <<>>, FALSE)
          /\ UNCHANGED <<prog, svgdump, svgDumpState, stateErr, mon>>
          /\ UNCHANGED dataVars
          /\ output' = <<>>
          /\ UNCHANGED <<dec2Vars, asmVars, input>>
       \/ \* nread of the strLength characters are read, then the file ends
          \E strLength \in 0..MaxTitle :
          \E nread \in 0..strLength, ok1 \in Fprintf, ok2 \in Fprintf :
          \E ch \in IF nread = 0 THEN {0} ELSE TitleChars :
             LET r == StartLayerCalls(svgdump, svgDumpState, ok1, ok2) IN
             /\ title' = [i \in 1..(MaxTitle + 1) |->
                             IF i <= nread THEN ch
                             ELSE IF i = strLength + 1 THEN 0 ELSE title[i]]
             /\ EndRead1(1, strLength, FALSE, r.st, r.calls, r.brk, nread < strLength,
                          IF nread < strLength THEN <<Handled(1, r.calls)>> ELSE <<>>)
             /\ UNCHANGED <<header, color, strokeColor, strokeWidth>>

(* A mutant of MissingEndPath: END_LAYER never ends the path itself. *)
MissingEndPath_Never(st) == FALSE

(* if(svgDumpState == DUMPSTATE_AFTER_CLOSE_PATH): warning : missing END_PATH *)
(* before END_LAYER                                                          *)
MissingEndPath(st) == st = DUMPSTATE_AFTER_CLOSE_PATH

(* The emit calls of END_LAYER: a path end without fill or stroke when the   *)
(* path was closed but not ended, then the layer end.                        *)
EndLayerCalls(dump, st, fc, w, sc, ok1, ok2) ==
    LET e == dumpSVGEndPath(dump, st, FALSE, fc, FALSE, w, sc, ok1)
        es == IF MissingEndPath(st) THEN <<Call("PathEnd", st, e)>> ELSE <<>>
        st1 == IF MissingEndPath(st) THEN e.st ELSE st
        l == dumpSVGEndLayer(dump, st1, ok2)
    IN  IF MissingEndPath(st) /\ e.ret # 0
        THEN [st |-> e.st, calls |-> es, brk |-> TRUE]
        ELSE [st |-> l.st, calls |-> es \o <<Call("LayerEnd", st1, l)>>, brk |-> l.ret # 0]

CMD_02_END_LAYER ==
    /\ InLoop1
    /\ \E ok1 \in Fprintf, ok2 \in Fprintf :
          \* hasFill = 0 and hasStroke = 0: the colors are passed and not read
          LET r == EndLayerCalls(svgdump, svgDumpState, color, strokeWidth,
                                 strokeColor, ok1, ok2)
          IN  EndBlock1(2, FALSE, r.st, r.calls, r.brk, FALSE,
                        IF svgDumpState = DUMPSTATE_AFTER_CLOSE_PATH
                        THEN <<Handled(2, r.calls)>> ELSE <<>>)
    /\ UNCHANGED dataVars

CMD_03_START_FILE ==
    /\ InLoop1
    /\ \/ /\ EndStep1(3, FALSE, svgDumpState, <<>>, FALSE, TRUE)
          /\ UNCHANGED dataVars
       \/ \E x1 \in {0, scaleFactor} :
               /\ header' = [x1 |-> x1, y1 |-> 0, x2 |-> 100 * scaleFactor,
                             y2 |-> 100 * scaleFactor, unknown |-> 0]
               /\ EndStep1(3, x1 = 0, svgDumpState, <<>>, FALSE, FALSE)
               /\ UNCHANGED <<title, color, strokeColor, strokeWidth>>

CMD_04_STROKE_COLOR ==
    /\ InLoop1
    /\ \/ /\ EndStep1(4, FALSE, svgDumpState, <<>>, FALSE, TRUE)
          /\ UNCHANGED dataVars
       \/ \E c \in Colors :
               /\ strokeColor' = c
               /\ EndStep1(4, FALSE, svgDumpState, <<>>, FALSE, FALSE)
               /\ UNCHANGED <<title, header, color, strokeWidth>>

CMD_05_FILL_COLOR ==
    /\ InLoop1
    /\ \/ /\ EndStep1(5, FALSE, svgDumpState, <<>>, FALSE, TRUE)
          /\ UNCHANGED dataVars
       \/ \E c \in Colors :
               /\ color' = c
               /\ EndStep1(5, FALSE, svgDumpState, <<>>, FALSE, FALSE)
               /\ UNCHANGED <<title, header, strokeColor, strokeWidth>>

CMD_06_MOVE_TO ==
    /\ InLoop1
    /\ \/ EndStep1(6, FALSE, svgDumpState, <<>>, FALSE, TRUE)
       \/ \E ok \in Fprintf :
             LET r == dumpSVGStartPath(svgdump, svgDumpState, ok) IN
             EndStep1(6, FALSE, r.st, <<Call("PathStart", svgDumpState, r)>>, r.ret # 0, FALSE)
    /\ UNCHANGED dataVars

(* for(y=0; y<pcount; y++): read a point, break when the read is short;     *)
(* dumpSVGLine, break when it fails.  y counts from 1 here; nread points    *)
(* can be read before the file ends; the failAt-th fprintf fails (0: none). *)
RECURSIVE LineLoop(_, _, _, _, _, _)
LineLoop(dump, st, y, pcount, nread, failAt) ==
    IF y > pcount THEN [st |-> st, calls |-> <<>>, eof |-> FALSE]
    ELSE IF y > nread THEN [st |-> st, calls |-> <<>>, eof |-> TRUE]
    ELSE LET r == dumpSVGLine(dump, st, failAt # y) IN
         IF r.ret # 0
         THEN [st |-> r.st, calls |-> <<Call("Line", st, r)>>, eof |-> FALSE]
         ELSE LET rest == LineLoop(dump, r.st, y + 1, pcount, nread, failAt) IN
              [st |-> rest.st, calls |-> <<Call("Line", st, r)>> \o rest.calls,
               eof |-> rest.eof]

CMD_07_LINE ==
    /\ InLoop1
    /\ \/ EndStep1(7, FALSE, svgDumpState, <<>>, FALSE, TRUE)
       \/ \E pcount \in 0..MaxLines :
          \E nread \in 0..pcount, failAt \in IF svgdump THEN 0..pcount ELSE {0} :
             LET r == LineLoop(svgdump, svgDumpState, 1, pcount, nread, failAt) IN
             EndRead1(7, pcount, FALSE, r.st, r.calls, FALSE, r.eof, <<>>)
    /\ UNCHANGED dataVars

(* for(y=0; y<(pcount/3); y++): read a cubic (6 words), break when short;   *)
(* dumpSVGCubic, break when it fails.                                       *)
RECURSIVE CubicLoop(_, _, _, _, _, _)
CubicLoop(dump, st, y, count, nread, failAt) ==
    IF y > count THEN [st |-> st, calls |-> <<>>, eof |-> FALSE]
    ELSE IF y > nread THEN [st |-> st, calls |-> <<>>, eof |-> TRUE]
    ELSE LET r == dumpSVGCubic(dump, st, failAt # y) IN
         IF r.ret # 0
         THEN [st |-> r.st, calls |-> <<Call("Cubic", st, r)>>, eof |-> FALSE]
         ELSE LET rest == CubicLoop(dump, r.st, y + 1, count, nread, failAt) IN
              [st |-> rest.st, calls |-> <<Call("Cubic", st, r)>> \o rest.calls,
               eof |-> rest.eof]

(* A mutant of CubicCount: a remainder makes one more cubic. *)
CubicCount_Ceil(pcount) == (pcount + 2) \div 3

(* y<(pcount/3) *)
CubicCount(pcount) == pcount \div 3

CMD_08_CUBIC ==
    /\ InLoop1
    /\ \/ EndStep1(8, FALSE, svgDumpState, <<>>, FALSE, TRUE)
       \/ \E pcount \in 0..MaxPts :
          \E nread \in 0..CubicCount(pcount),
             failAt \in IF svgdump THEN 0..CubicCount(pcount) ELSE {0} :
             LET r == CubicLoop(svgdump, svgDumpState, 1, CubicCount(pcount), nread, failAt)
             IN  EndBlock1(8, FALSE, r.st, r.calls, FALSE, r.eof,
                           Block(8, pcount, r.calls, ~r.eof /\ InPath(svgdump, svgDumpState)))
    /\ UNCHANGED dataVars

(* A mutant of EndPathFlags: the two flags change places. *)
EndPathFlags_Swapped(cmd) ==
    IF cmd = 9 THEN [hasFill |-> TRUE, hasStroke |-> FALSE]
    ELSE [hasFill |-> cmd = 11, hasStroke |-> TRUE]

(* The hasFill and hasStroke arguments of dumpSVGEndPath: 0, 1 for 0x09 and  *)
(* 1, (cmd==0x0B) for 0x0A and 0x0B.                                         *)
EndPathFlags(cmd) ==
    IF cmd = 9 THEN [hasFill |-> FALSE, hasStroke |-> TRUE]
    ELSE [hasFill |-> TRUE, hasStroke |-> cmd = 11]

(* For the end-path opcodes in input the record is the argument list of the  *)
(* dumpSVGEndPath call.                                                      *)
Passed(cmd, a, fc, w, sc) ==
    IF cmd \in input.ops
    THEN <<[cmd |-> cmd, hasFill |-> a.hasFill, fill |-> fc,
            hasStroke |-> a.hasStroke, width |-> w, stroke |-> sc]>>
    ELSE <<>>

CMD_09_END_PATH_SO ==
    /\ InLoop1
    /\ \E ok \in Fprintf, sc \in AnyOf(strokeColor) :
          LET a == EndPathFlags(9)
              r == dumpSVGEndPath(svgdump, svgDumpState, a.hasFill, color, a.hasStroke,
                                  strokeWidth, sc, ok)
          IN  EndBlock1(9, FALSE, r.st, <<Call("PathEnd", svgDumpState, r)>>, r.ret # 0, FALSE,
                        Passed(9, a, color, strokeWidth, sc))
    /\ UNCHANGED dataVars

(* CMD_0A_END_PATH_FO or CMD_0B_END_PATH_SF *)
CMD_0A_END_PATH_FO ==
    /\ InLoop1
    /\ \E cmd \in {10, 11}, ok \in Fprintf, fc \in AnyOf(color) :
       \E sc \in IF cmd = 11 THEN AnyOf(strokeColor) ELSE {strokeColor} :
          LET a == EndPathFlags(cmd)
              r == dumpSVGEndPath(svgdump, svgDumpState, a.hasFill, fc, a.hasStroke,
                                  strokeWidth, sc, ok)
          IN  EndBlock1(cmd, FALSE, r.st, <<Call("PathEnd", svgDumpState, r)>>, r.ret # 0, FALSE,
                        Passed(cmd, a, fc, strokeWidth, sc))
    /\ UNCHANGED dataVars

CMD_0D_CLOSE_PATH ==
    /\ InLoop1
    /\ \E ok \in Fprintf :
          LET r == dumpSVGClosePath(svgdump, svgDumpState, ok) IN
          EndStep1(13, FALSE, r.st, <<Call("Close", svgDumpState, r)>>, r.ret # 0, FALSE)
    /\ UNCHANGED dataVars

(* CMD_0E_UNKNOWN_FLAG1 and CMD_0F_UNKNOWN_FLAG2: one word, read and dropped *)
CMD_0E_UNKNOWN_FLAG1 ==
    /\ InLoop1
    /\ \E cmd \in {14, 15}, rd \in BOOLEAN : EndStep1(cmd, FALSE, svgDumpState, <<>>, FALSE, ~rd)
    /\ UNCHANGED dataVars

CMD_10_STROKE_WIDTH ==
    /\ InLoop1
    /\ \/ /\ EndStep1(16, FALSE, svgDumpState, <<>>, FALSE, TRUE)
          /\ UNCHANGED dataVars
       \/ \E w \in Widths :
               /\ strokeWidth' = w
               /\ EndStep1(16, FALSE, svgDumpState, <<>>, FALSE, FALSE)
               /\ UNCHANGED <<title, header, color, strokeColor>>

(* A mutant of EndFileBreaks: the loop is left only when the footer fails. *)
EndFileBreaks_OnFailure(ret) == ret # 0

(* if(dumpSVGFooter(fout)) { break; } break; *)
EndFileBreaks(ret) == TRUE

(* the footer, then break whether or not it was written *)
CMD_15_END_FILE ==
    /\ InLoop1
    /\ \E ok \in Fprintf :
          LET r == dumpSVGFooter(svgdump, svgDumpState, ok)
              cs == <<Call("Footer", svgDumpState, r)>>
          IN  EndBlock1(21, FALSE, r.st, cs, EndFileBreaks(r.ret), FALSE, <<Handled(21, cs)>>)
    /\ UNCHANGED dataVars

(* After the loop: with SVG output the run fails unless the footer was      *)
(* written; the files are closed and main returns error.                    *)
ExitStatus1(dump, st) == IF dump /\ st # DUMPSTATE_AFTER_FOOTER THEN 1 ELSE 0

Exit1 ==
    /\ prog = "ubvff1"
    /\ pc = "post"
    /\ pc' = "done"
    /\ error' = ExitStatus1(svgdump, svgDumpState)
    /\ calls' = <<>>
    /\ UNCHANGED <<prog, svgdump, svgDumpState, stateErr, mon, frame>>
    /\ UNCHANGED dataVars
    /\ output' = IF input.follow # <<>> THEN output ELSE <<>>
    /\ UNCHANGED <<dec2Vars, asmVars, input>>

Init1As(watch) ==
    /\ prog = "ubvff1"
    /\ svgdump \in BOOLEAN
    /\ svgDumpState = DUMPSTATE_BEGIN
    /\ calls = <<>>
    /\ pc = "loop"
    /\ error = -1
    /\ stateErr = FALSE
    /\ mon = MonInit
    /\ frame = FrameInit
    /\ title = TitleBuf
    /\ header = "unset"
    /\ color = "unset"
    /\ strokeColor = "unset"
    /\ strokeWidth = scaleFactor
    /\ Dec2Idle
    /\ AsmIdle
    /\ input = watch
    /\ output = <<>>

Init1 == Init1As(NoWatch)

Next1 ==
    \/ ReadCmdFails
    \/ CMD_00_LAYER_SEP
    \/ CMD_01_START_LAYER
    \/ CMD_02_END_LAYER
    \/ CMD_03_START_FILE
    \/ CMD_04_STROKE_COLOR
    \/ CMD_05_FILL_COLOR
    \/ CMD_06_MOVE_TO
    \/ CMD_07_LINE
    \/ CMD_08_CUBIC
    \/ CMD_09_END_PATH_SO
    \/ CMD_0A_END_PATH_FO
    \/ CMD_0C_NOP
    \/ CMD_0D_CLOSE_PATH
    \/ CMD_0E_UNKNOWN_FLAG1
    \/ CMD_10_STROKE_WIDTH
    \/ CMD_15_END_FILE
    \/ CMD_UNKNOWN
    \/ Exit1

Spec1 == Init1 /\ [][Next1]_vars

(* ubvff1 with a record of the opcodes that are not in cmdTable *)
InitSkip1 == Init1As(Watch({17, 22}, <<>>))

SpecSkip1 == InitSkip1 /\ [][Next1]_vars

(* ubvff1 with a record of the arguments of the end-path opcodes *)
InitEnd1 == Init1As(Watch({9, 10, 11}, <<>>))

SpecEnd1 == InitEnd1 /\ [][Next1]_vars

(* The minimal stream: the magic START_FILE, START_LAYER with a title of one *)
(* character, MOVE_TO, LINE with one point, END_PATH_SO, END_LAYER.          *)
MinimalStream ==
    <<<<3, 0, TRUE>>, <<1, 1, FALSE>>, <<6, 0, FALSE>>, <<7, 1, FALSE>>,
      <<9, 0, FALSE>>, <<2, 0, FALSE>>>>

(* the minimal stream ended by END_FILE alone *)
ShortStream == MinimalStream \o <<<<21, 0, FALSE>>>>

(* the minimal stream ended by the magic footer *)
FooterStream == MinimalStream \o [i \in 1..Len(MagicFooter) |-> <<MagicFooter[i], 0, FALSE>>]

(* ubvff1 with the commands read compared with one of the two streams *)
InitStream1 == \E s \in {ShortStream, FooterStream} : Init1As(Watch({}, s))

SpecStream1 == InitStream1 /\ [][Next1]_vars

-----------------------------------------------------------------------------
(* C integer arithmetic: / truncates toward zero, % has the dividend's sign. *)

Abs(n) == IF n < 0 THEN -n ELSE n

CDiv(n, d) ==
    LET q == Abs(n) \div Abs(d) IN IF (n < 0) # (d < 0) THEN -q ELSE q

CRem(n, d) == n - d * CDiv(n, d)

(* A roundInt whose last step tests the sign of n, not of the quotient. *)
roundInt_BySign(n, d) ==
    LET l == CDiv(n, d)
        r == CRem(n, d)
    IN  IF r < CDiv(d, 4) THEN l
        ELSE IF n > 0 THEN l + 1 ELSE l - 1

(* int roundInt(int n, int d), the same in ubvff1.c and in ubvff2 *)
roundInt(n, d) ==
    LET l == CDiv(n, d)
        r == CRem(n, d)
    IN  IF r < CDiv(d, 4) THEN l
        ELSE IF l > 0 THEN l + 1 ELSE l - 1

(* A function on its own: the idle values of the decoders' variables. *)
DecRest ==
    /\ svgDumpState = DUMPSTATE_BEGIN
    /\ calls = <<>>
    /\ pc = "idle"
    /\ error = -1
    /\ stateErr = FALSE
    /\ mon = MonInit
    /\ frame = FrameInit
    /\ title = <<>>
    /\ header = "unset"
    /\ color = "unset"
    /\ strokeColor = "unset"
    /\ strokeWidth = 0

DecIdle == svgdump = FALSE /\ DecRest

MaxN == 12      \* roundInt is applied to n in -MaxN..MaxN
MaxD == 8       \* and to d in 1..MaxD

InitRound ==
    /\ prog = "roundInt"
    /\ input \in [n : (-MaxN)..MaxN, d : 1..MaxD]
    /\ output = <<>>
    /\ DecIdle
    /\ Dec2Idle
    /\ AsmIdle

CallRoundInt ==
    /\ prog = "roundInt"
    /\ output = <<>>
    /\ output' = <<roundInt(input.n, input.d)>>
    /\ UNCHANGED <<prog, input>>
    /\ UNCHANGED <<decVars, dec2Vars, asmVars>>

NextRound == CallRoundInt

SpecRound == InitRound /\ [][NextRound]_vars

-----------------------------------------------------------------------------
(* The output file: its bytes, one character each, and the write cursor pos, *)
(* a byte offset counted from 0.                                            *)

(* the header both ubvff2 and vecass write, with the viewport placeholder *)
SvgHeader ==
    <<"<", "s", "v", "g", " ", "v", "i", "e", "w", "B", "o", "x", "=", "\"",
       "V", "I", "E", "W", "B", "O", "X", "_", "P", "L", "A", "C", "E", "H",
       "O", "L", "D", "E", "R", "_", "1", "2", "3", "4", "\"", " ", "v", "e",
       "r", "s", "i", "o", "n", "=", "\"", "1", ".", "1", "\"", " ", "b",
       "a", "s", "e", "P", "r", "o", "f", "i", "l", "e", "=", "\"", "f", "u",
       "l", "l", "\"", " ", "x", "m", "l", "n", "s", "=", "\"", "h", "t",
       "t", "p", ":", "/", "/", "w", "w", "w", ".", "w", "3", ".", "o", "r",
       "g", "/", "2", "0", "0", "0", "/", "s", "v", "g", "\"", ">", "\n" >>

(* fwrite of data at the cursor: it overwrites, and extends the file when it *)
(* runs past the end (bytes never written read as NUL)                      *)
Fwrite(f, data) ==
    LET n == Len(data)
        len == IF f.pos + n > Len(f.bytes) THEN f.pos + n ELSE Len(f.bytes)
    IN  [bytes |-> [i \in 1..len |->
                       IF i > f.pos /\ i <= f.pos + n THEN data[i - f.pos]
                       ELSE IF i <= Len(f.bytes) THEN f.bytes[i] ELSE "NUL"],
         pos |-> f.pos + n]

Fseek(f, off) == [f EXCEPT !.pos = off]

(* printf's %i: the decimal digits, a minus sign before a negative number *)
DigitChar == <<"0", "1", "2", "3", "4", "5", "6", "7", "8", "9">>

RECURSIVE Digits(_)
Digits(n) ==
    IF n < 10 THEN <<DigitChar[n + 1]>>
    ELSE Digits(n \div 10) \o <<DigitChar[(n % 10) + 1]>>

FormatInt(n) == IF n < 0 THEN <<"-">> \o Digits(-n) ELSE Digits(n)

(* sprintf(&buf[0], "\"%i %i %i %i\"", minx, miny, maxx, maxy) *)
ViewboxText(minx, miny, maxx, maxy) ==
    <<"\"">> \o FormatInt(minx) \o <<" ">> \o FormatInt(miny) \o <<" ">>
             \o FormatInt(maxx) \o <<" ">> \o FormatInt(maxy) \o <<"\"">>

BufSize == 30           \* char buf[30]

FieldOffset == 13       \* fseek(fout,13,SEEK_SET)

FieldSize == 26         \* fwrite(&buf[0],1,26,fout)

(* buf after the padding (spaces from strlen(buf) up to 26 when the text is  *)
(* shorter), as far as fwrite reads it: its first 26 bytes                   *)
FieldBytes(text) == [i \in 1..FieldSize |-> IF i <= Len(text) THEN text[i] ELSE " "]

(* The library calls of a patch that can fail; "ok": none does. *)
IoOutcomes == {"ok", "fflush", "ftell", "fseek", "fwrite", "fseek2"}

(* sprintf writes the text and a NUL into buf.  A text that does not fit is  *)
(* undefined behaviour, the outcomes are those a build can produce: "asif"   *)
(* the neighbouring objects absorb it unharmed, "cursor" the saved position  *)
(* pos is overwritten, "abort" the process is killed at the sprintf.         *)
UbOutcomes(text) ==
    IF Len(text) + 1 > BufSize THEN {"asif", "cursor", "abort"} ELSE {"none"}

(* The statements setViewbox and dumpSVGSetViewbox share, from ftell on: io  *)
(* is the call that fails, k the bytes a failing fwrite still wrote, ub the  *)
(* outcome of the sprintf, c the position a clobbered pos holds.  ret is the *)
(* return value, -1 when the function does not return.                       *)
PatchField(f, text, io, k, ub, c) ==
    LET at == Fseek(f, FieldOffset)
        data == FieldBytes(text)
    IN  IF io = "ftell" \/ io = "fseek" THEN [ret |-> 1, file |-> f]
        ELSE IF ub = "abort" THEN [ret |-> -1, file |-> at]
        ELSE IF io = "fwrite" THEN [ret |-> 1, file |-> Fwrite(at, SubSeq(data, 1, k))]
        ELSE IF io = "fseek2" THEN [ret |-> 1, file |-> Fwrite(at, data)]
        ELSE [ret |-> 0,
              file |-> Fseek(Fwrite(at, data), IF ub = "cursor" THEN c ELSE f.pos)]

(* vecass.c: int setViewbox(FILE * fout, minx, miny, maxx, maxy) *)
setViewbox(f, minx, miny, maxx, maxy, io, k, ub, c) ==
    IF io = "fflush" THEN [ret |-> 1, file |-> f]
    ELSE PatchField(f, ViewboxText(minx, miny, maxx, maxy), io, k, ub, c)

scaleFactor2 == 65536   \* ubvff2: const int32_t scaleFactor = 0x10000

(* the text dumpSVGSetViewbox formats: the bounds in whole units *)
ViewboxText2(minx, miny, maxx, maxy) ==
    ViewboxText(roundInt(minx, scaleFactor2), roundInt(miny, scaleFactor2),
                roundInt(maxx, scaleFactor2), roundInt(maxy, scaleFactor2))

(* ubvff2: int dumpSVGSetViewbox(FILE * fout, minx, miny, maxx, maxy); it    *)
(* has no fflush.                                                           *)
dumpSVGSetViewbox(dump, f, minx, miny, maxx, maxy, io, k, ub, c) ==
    IF ~dump THEN [ret |-> 0, file |-> f]
    ELSE PatchField(f, ViewboxText2(minx, miny, maxx, maxy), io, k, ub, c)

-----------------------------------------------------------------------------
(* The two patch functions on their own, applied to a file that holds the   *)
(* header and body bytes after it, the cursor at the end.                   *)

MaxBody == 1        \* most bytes written between the header and the patch

ViewMinX == {0, -1, -10000, -32767}

ViewMinY == {0, -10000}

ViewMaxX == {1, 10000, 32767}

ViewMaxY == {1, 10000}

(* vecass takes the bounds from the fragments' viewBox attributes, sscanf's  *)
(* %i yields any int                                                        *)
ViewFar == 1000000000

OrigFile(body) ==
    [bytes |-> SvgHeader \o [i \in 1..body |-> "x"], pos |-> Len(SvgHeader) + body]

ViewboxInputs(p) ==
    IF p = "setViewbox"
    THEN [minx : ViewMinX \cup {-ViewFar}, miny : ViewMinY \cup {-ViewFar},
          maxx : ViewMaxX \cup {ViewFar}, maxy : ViewMaxY \cup {ViewFar},
          body : 0..MaxBody]
    ELSE {[minx |-> a * scaleFactor2, miny |-> b * scaleFactor2,
           maxx |-> c * scaleFactor2, maxy |-> d * scaleFactor2, body |-> n] :
             a \in ViewMinX, b \in ViewMinY, c \in ViewMaxX, d \in ViewMaxY,
             n \in 0..MaxBody}

(* the positions a clobbered pos is tried with: the start of the file, the  *)
(* end of the field (the cursor is not moved back), and the right one       *)
ClobberedPos(f) == {0, FieldOffset + FieldSize, f.pos}

InitViewbox ==
    /\ prog \in {"setViewbox", "dumpSVGSetViewbox"}
    /\ svgdump \in IF prog = "dumpSVGSetViewbox" THEN BOOLEAN ELSE {FALSE}
    /\ input \in ViewboxInputs(prog)
    /\ output = <<>>
    /\ DecRest
    /\ Dec2Idle
    /\ dumpList = <<>>
    /\ depth = 0
    /\ files = <<>>
    /\ leafRefs = <<>>
    /\ fout = OrigFile(input.body)

Returned(r) ==
    /\ fout' = r.file
    /\ output' = <<r.ret>>
    /\ UNCHANGED <<prog, input, dumpList, depth, files, leafRefs>>
    /\ UNCHANGED <<decVars, dec2Vars>>

CallSetViewbox ==
    /\ prog = "setViewbox"
    /\ output = <<>>
    /\ \E io \in IoOutcomes,
          ub \in UbOutcomes(ViewboxText(input.minx, input.miny, input.maxx, input.maxy)) :
       \E k \in IF io = "fwrite" THEN 0..(FieldSize - 1) ELSE {0},
          c \in IF ub = "cursor" THEN ClobberedPos(fout) ELSE {fout.pos} :
          Returned(setViewbox(fout, input.minx, input.miny, input.maxx, input.maxy,
                              io, k, ub, c))

CallDumpSVGSetViewbox ==
    /\ prog = "dumpSVGSetViewbox"
    /\ output = <<>>
    /\ \E io \in IoOutcomes \ {"fflush"},
          ub \in UbOutcomes(ViewboxText2(input.minx, input.miny, input.maxx, input.maxy)) :
       \E k \in IF io = "fwrite" THEN 0..(FieldSize - 1) ELSE {0},
          c \in IF ub = "cursor" THEN ClobberedPos(fout) ELSE {fout.pos} :
          Returned(dumpSVGSetViewbox(svgdump, fout, input.minx, input.miny, input.maxx,
                                     input.maxy, io, k, ub, c))

NextViewbox ==
    \/ CallSetViewbox
    \/ CallDumpSVGSetViewbox

SpecViewbox == InitViewbox /\ [][NextViewbox]_vars

-----------------------------------------------------------------------------
(* vecass.c (ubvff2 part), main.  One step reads one command (five words)   *)
(* and runs its handler to the end; the command file and the points file    *)
(* are revealed as they are read.                                           *)

MinCmdCount == 10   \* header.words[1] <= 0x0A: not a valid command file

MaxCmdCount == 11   \* largest cmdCount of a file

(* the points the points file holds; all points of one command are equal *)
Points2 == { [x |-> 0, y |-> 0], [x |-> 2 * scaleFactor2, y |-> -scaleFactor2] }

Colors2 == {"c1"}

(* viewMinX=0, viewMinY=0, viewMaxX=0x10000, viewMaxY=0x10000 *)
ViewInit2 == [minX |-> 0, minY |-> 0, maxX |-> scaleFactor2, maxY |-> scaleFactor2]

(* the points read when the viewport is watched: one right of and below the  *)
(* initial box, one left of and above it                                     *)
PointsView == { [x |-> 2 * scaleFactor2, y |-> -scaleFactor2],
                [x |-> -scaleFactor2, y |-> 3 * scaleFactor2] }

(* A mutant of FoldPoint: a value below the least one is not taken. *)
FoldPoint_MaxOnly(v, p) ==
    [v EXCEPT !.maxX = IF p.x > @ THEN p.x ELSE @, !.maxY = IF p.y > @ THEN p.y ELSE @]

(* bo_fread, size 4: an X value and a Y value folded into the viewport *)
FoldPoint(v, p) ==
    LET vx == IF p.x > v.maxX THEN [v EXCEPT !.maxX = p.x]
              ELSE IF p.x < v.minX THEN [v EXCEPT !.minX = p.x] ELSE v
    IN  IF p.y > vx.maxY THEN [vx EXCEPT !.maxY = p.y]
        ELSE IF p.y < vx.minY THEN [vx EXCEPT !.minY = p.y] ELSE vx

(* bo_fread, size 4: for(int i=0; i<count; i++) over the words of the points *)
(* ps, from the i-th point on                                                *)
RECURSIVE FoldPoints(_, _, _)
FoldPoints(v, ps, i) ==
    IF i > Len(ps) THEN v ELSE FoldPoints(FoldPoint(v, ps[i]), ps, i + 1)

(* an int read before it was assigned holds any value: zero or not *)
BoolOf(v) == IF v.set THEN {v.val} ELSE BOOLEAN

AnyOf2(v) == IF v = "unset" THEN Colors2 ELSE {v}

RECURSIVE BitAnd(_, _)

(* A mutant of BitAnd: the second operand as it is. *)
BitAnd_Second(a, b) == b

(* the 16-bit parameter words a STROKE_WIDTH command is tried with *)
WidthWords == {0, 32768, 65535}

(* a & b on non-negative numbers *)
BitAnd(a, b) ==
    IF a = 0 \/ b = 0 THEN 0
    ELSE 2 * BitAnd(a \div 2, b \div 2) + (IF a % 2 = 1 /\ b % 2 = 1 THEN 1 ELSE 0)

(* What a handler leaves behind: the emitter state st and the emit calls cs  *)
(* it made; brk says it left the loop by a break, after adding bump to       *)
(* cmdCounter; without a break the for statement increments cmdCounter and   *)
(* tests it against cmdCount.                                                *)
(* With the cursors watched (output[1].watch) the run also keeps the byte     *)
(* positions cpos of the command file and ppos of the points file, which is  *)
(* psize bytes long, and the record of a step is the command (cmd and the    *)
(* count it carries; cmd 0: a command without points), the 16-bit words      *)
(* cread read from the command file, and the 32-bit words asked from (want)  *)
(* and read from (got) the points file.                                      *)
Advance(o, cread, got) ==
    IF o.watch THEN [o EXCEPT !.cpos = @ + 2 * cread, !.ppos = @ + 4 * got] ELSE o

(* With the paths watched (output[1].paths) the run keeps the END_PATH       *)
(* sub-codes subs seen since the last path end was written, and the record   *)
(* blk of an END_PATH is its sub-code, the token written and the sub-codes   *)
(* seen before it.                                                           *)
Noted(o, blk) ==
    IF o.paths /\ blk # <<>> /\ blk[1].cmd = 7
    THEN [o EXCEPT !.subs = IF blk[1].sub # 2 THEN @ \cup {blk[1].sub}
                            ELSE IF blk[1].tok.op # "" THEN {} ELSE @]
    ELSE IF o.views /\ blk # <<>> /\ blk[1].cmd = 0
    THEN [o EXCEPT !.xs = @ \cup {blk[1].pts[i].x : i \in 1..Len(blk[1].pts)},
                   !.ys = @ \cup {blk[1].pts[i].y : i \in 1..Len(blk[1].pts)}]
    ELSE o

(* With the viewport watched (output[1].views) the run keeps the X values xs *)
(* and the Y values ys of the points that bo_fread returned in full; the     *)
(* record blk of a read is the points it returned.                           *)
PointsRead(o, ps, other) == IF o.views THEN <<[cmd |-> 0, pts |-> ps]>> ELSE other

(* the points a read of n points can return *)
PointRuns(o, n) ==
    IF o.views THEN [1..n -> PointsView] ELSE {[i \in 1..n |-> p] : p \in Points2}

(* of the END_PATH records only that of sub-code 2 is kept after the step *)
Kept(blk) ==
    IF blk # <<>> /\ (blk[1].cmd = 0 \/ (blk[1].cmd = 7 /\ blk[1].sub # 2)) THEN <<>> ELSE blk

(* the 32-bit words left in the points file *)
Avail == (output[1].psize - output[1].ppos) \div 4

(* bo_fread(.., 4, want, fin2) returns want *)
Reads(want) == output[1].watch => want <= Avail

(* bo_fread(.., 4, want, fin2) comes back short, with what is left of the file *)
Short(want) == output[1].watch => want > Avail

Got == IF output[1].watch THEN Avail ELSE 0

EndRead2(cmd, count, st, cs, brk, bump, blk, cread, want, got) ==
    LET n == IF brk THEN cmdCounter + bump ELSE cmdCounter + 1 IN
    /\ svgDumpState' = st
    /\ calls' = <<>>
    /\ stateErr' = (stateErr \/ HasErr(cs, "state"))
    /\ mon' = MonAll(mon, cs)
    /\ cmdCounter' = n
    /\ pc' = IF brk \/ n >= cmdCount THEN "post" ELSE "loop"
    /\ output' = <<Noted(Advance(output[1], cread, got), blk)>> \o
                  (IF output[1].watch
                   THEN <<[cmd |-> cmd, count |-> count, cread |-> cread,
                           want |-> want, got |-> got]>>
                   ELSE Kept(blk))
    /\ UNCHANGED <<prog, svgdump, error, frame, title, header, cmdCount, input>>
    /\ UNCHANGED asmVars

(* a command that reads its five words and nothing from the points file *)
EndBlock2(st, cs, brk, bump, blk) == EndRead2(0, 0, st, cs, brk, bump, blk, 5, 0, 0)

EndStep2(st, cs, brk, bump) == EndBlock2(st, cs, brk, bump, <<>>)

InLoop2 == prog = "ubvff2" /\ pc = "loop"

(* A mutant of HeaderCount: the count is taken from the third word. *)
HeaderCount_Third(words) == words[3]

(* header.words[1], the same storage as header.params.cmdCount: the second   *)
(* of the 16-bit words z1, cmdCount, z2                                      *)
HeaderCount(words) == words[2]

(* if(header.words[1]<=0x0A) return 1 *)
HeaderOk(words) == ~(HeaderCount(words) <= MinCmdCount)

(* if(footer.cmd != 0x01 || footer.z1 != 0 || footer.z2 != 0 || footer.z3 != 0) *)
FooterOk(ft) == ~(ft.cmd # 1 \/ ft.z1 # 0 \/ ft.z2 # 0 \/ ft.z3 # 0)

(* The command files read: the words z1, cmdCount, z2 of the header and the  *)
(* footer's opcode and reserved words.                                       *)
HeaderWords2 ==
    {<<0, n, 0>> : n \in MinCmdCount..MaxCmdCount} \cup {<<0, MinCmdCount, MaxCmdCount>>}

(* the five words of the last command of the file, END_FILE (1, N, 0, 0, 0)  *)
(* among them, and the words that follow it in the file                      *)
LastCmds2 == {<<c, 2, a, b, d>> : c \in {1, 2}, a \in {0, 1}, b \in {0, 1}, d \in {0, 1}}

Extras2 == {<<>>, <<0>>, <<1>>}

(* fseek(fin1,-10,SEEK_END); bo_fread(&footer,2,5,fin1): the last five words *)
(* of the file as struct BIN_FOOTER                                          *)
FooterProbe(ws) ==
    LET n == Len(ws)
    IN  [cmd |-> ws[n - 4], pfilenum |-> ws[n - 3], z1 |-> ws[n - 2], z2 |-> ws[n - 1],
         z3 |-> ws[n]]

Files2 ==
    {[words |-> h, footer |-> FooterProbe(l \o e), last |-> l, extra |-> e] :
        h \in HeaderWords2, l \in LastCmds2, e \in Extras2}

(* fopen of the points file fails, or its header cannot be read, or neither *)
PointsFiles2 == {"ok", "missing", "short"}

(* main from the header read to the loop: what it returns (0: the loop is    *)
(* entered) and which files it has opened by then.                           *)
Prologue2(f, pts, outOk, dump) ==
    IF ~HeaderOk(f.words)
    THEN [ret |-> 1, pointsOpened |-> FALSE, outCreated |-> FALSE, msg |-> "header check failed",
          open |-> {"fin1"}]
    ELSE IF ~FooterOk(f.footer)
    THEN [ret |-> 1, pointsOpened |-> FALSE, outCreated |-> FALSE, msg |-> "footer check failed",
          open |-> {"fin1"}]
    ELSE IF pts = "missing"
    THEN [ret |-> 1, pointsOpened |-> FALSE, outCreated |-> FALSE, msg |-> "failed to open points",
          open |-> {"fin1"}]
    ELSE IF pts = "short"
    THEN [ret |-> 1, pointsOpened |-> TRUE, outCreated |-> FALSE, msg |-> "read failed (pointsFile)",
          open |-> {"fin1", "fin2"}]
    ELSE IF dump /\ ~outOk
    THEN [ret |-> 1, pointsOpened |-> TRUE, outCreated |-> FALSE, msg |-> "unable to open output",
          open |-> {"fin1", "fin2"}]
    ELSE [ret |-> 0, pointsOpened |-> TRUE, outCreated |-> dump, msg |-> "",
          open |-> {"fin1", "fin2"} \cup (IF dump THEN {"fout"} ELSE {})]

(* uint32_t offset = 4: where the point data starts, fseek(fin2,offset,SEEK_SET) *)
offset == 4

(* fseek(fin1,14,SEEK_SET): where the command data starts *)
CmdStart == 14

(* the sizes in bytes of the points files tried when the cursors are watched *)
MaxFilePts == 4

PointFileSizes == {offset + 8 * MaxFilePts - 4, offset + 8 * MaxFilePts}

(* The prologue's result together with the two cursors as the loop finds them *)
Opened(p, size) ==
    [ret |-> p.ret, pointsOpened |-> p.pointsOpened, outCreated |-> p.outCreated,
     msg |-> p.msg, open |-> p.open,
     watch |-> input = "cursor", cpos |-> CmdStart, ppos |-> offset, psize |-> size,
     paths |-> input = "paths", subs |-> {},
     views |-> input = "view", xs |-> {}, ys |-> {},
     ends |-> input = "ends"]

(* From the header read to the loop: the header, the footer and the points  *)
(* file are checked (return 1), the output file is opened, dumpSVGHeader is  *)
(* called and its return value dropped.                                      *)
Start2 ==
    /\ prog = "ubvff2"
    /\ pc = "start"
    /\ \E f \in Files2, pts \in PointsFiles2,
          outOk \in Fprintf, ok \in Fprintf,
          size \in IF input = "cursor" THEN PointFileSizes ELSE {offset} :
          LET h == dumpSVGHeader2(svgdump, svgDumpState, ok)
              p == Prologue2(f, pts, outOk, svgdump)
              go == p.ret = 0
          IN  /\ input' = f
              /\ output' = <<Opened(p, size)>>
              /\ cmdCount' = f.words[2]
              /\ cmdCounter' = IF go THEN 1 ELSE cmdCounter
              /\ pc' = IF go THEN "loop" ELSE "done"
              /\ error' = IF go THEN error ELSE 1
              /\ svgDumpState' = IF go THEN h.st ELSE svgDumpState
              /\ calls' = <<>>
              /\ stateErr' = (stateErr \/ (go /\ h.err = "state"))
              /\ mon' = IF go THEN MonStep(mon, h.tok) ELSE mon
    /\ UNCHANGED <<prog, svgdump, frame, hasFill, hasStroke, view, patch>>
    /\ UNCHANGED dataVars
    /\ UNCHANGED asmVars

(* bo_fread(&cmdw,2,5,fin1) != 5: break *)
ReadCmdFails2 ==
    /\ InLoop2
    /\ \E cread \in IF output[1].watch THEN {0, 4} ELSE {0} :
          EndRead2(0, 0, svgDumpState, <<>>, TRUE, 0, <<>>, cread, 0, 0)
    /\ UNCHANGED <<color, strokeColor, strokeWidth, hasFill, hasStroke, view, patch>>

(* the footer and the viewport patch, their return values dropped; then      *)
(* cmdCounter++ and break                                                    *)
CMD2_END_FILE ==
    /\ InLoop2
    /\ \E ok \in Fprintf,
          io \in IF svgdump THEN {"ok", "fwrite"} ELSE {"ok"},
          ub \in UbOutcomes(ViewboxText2(view.minX, view.minY, view.maxX, view.maxY)) :
          LET r == dumpSVGFooter2(svgdump, svgDumpState, ok)
              v == dumpSVGSetViewbox(svgdump, OrigFile(0), view.minX, view.minY,
                                     view.maxX, view.maxY, io, 0, ub, 0)
          IN  /\ patch' = IF svgdump /\ v.ret = 0
                          THEN SubSeq(v.file.bytes, FieldOffset + 1, FieldOffset + FieldSize)
                          ELSE patch
              /\ EndStep2(r.st, <<Call("Footer", svgDumpState, r)>>, TRUE, 1)
    /\ UNCHANGED <<color, strokeColor, strokeWidth, hasFill, hasStroke, view>>

(* A mutant of PointWords: one word per point. *)
PointWords_One(pTotal) == pTotal

(* bo_fread(&p,4,2,fin2), bo_fread(points,4,pTotal*2,fin2) and               *)
(* bo_fread(cubics,4,pTotal*2,fin2): the 32-bit words asked for pTotal points *)
PointWords(pTotal) == pTotal * 2

CMD2_MOVE_TO ==
    /\ InLoop2
    /\ \/ \* cmdw.words[1] != 1: break
          /\ EndRead2(2, 0, svgDumpState, <<>>, TRUE, 0, <<>>, 5, 0, 0)
          /\ UNCHANGED view
       \/ \* the point cannot be read: break
          /\ Short(PointWords(1))
          /\ EndRead2(2, 1, svgDumpState, <<>>, TRUE, 0, <<>>, 5, PointWords(1), Got)
          /\ UNCHANGED view
       \/ \E ps \in PointRuns(output[1], 1), ok \in Fprintf :
             LET r == dumpSVGStartPath2(svgdump, svgDumpState, ok)
                 cs == <<Call("PathStart", svgDumpState, r)>>
             IN
             /\ Reads(PointWords(1))
             /\ view' = FoldPoints(view, ps, 1)
             /\ EndRead2(2, 1, r.st, cs, r.ret # 0, 0,
                         PointsRead(output[1], ps, <<>>), 5, PointWords(1), PointWords(1))
    /\ UNCHANGED <<color, strokeColor, strokeWidth, hasFill, hasStroke, patch>>

(* for(int i=0; i<pTotal; i++) if(dumpSVGLine(fout, &points[i])) break;     *)
(* i counts from 1 here; the failAt-th fprintf fails (0: none).             *)
RECURSIVE LineLoop2(_, _, _, _, _)
LineLoop2(dump, st, i, pTotal, failAt) ==
    IF i > pTotal THEN [st |-> st, calls |-> <<>>]
    ELSE LET r == dumpSVGLine2(dump, st, failAt # i) IN
         IF r.ret # 0 THEN [st |-> r.st, calls |-> <<Call("Line", st, r)>>]
         ELSE LET rest == LineLoop2(dump, r.st, i + 1, pTotal, failAt) IN
              [st |-> rest.st, calls |-> <<Call("Line", st, r)>> \o rest.calls]

CMD2_POINTS_LINES ==
    /\ InLoop2
    /\ \/ \* pTotal == 0, or no memory: break
          /\ \E pTotal \in IF output[1].watch THEN 0..MaxLines ELSE {0} :
                EndRead2(3, pTotal, svgDumpState, <<>>, TRUE, 0, <<>>, 5, 0, 0)
          /\ UNCHANGED view
       \/ \* the points cannot all be read: break
          /\ \E pTotal \in IF output[1].watch THEN 1..MaxLines ELSE {1} :
                /\ Short(PointWords(pTotal))
                /\ EndRead2(3, pTotal, svgDumpState, <<>>, TRUE, 0, <<>>, 5,
                            PointWords(pTotal), Got)
          /\ UNCHANGED view
       \/ \E pTotal \in 1..MaxLines :
          \E ps \in PointRuns(output[1], pTotal),
             failAt \in IF svgdump THEN 0..pTotal ELSE {0} :
             LET r == LineLoop2(svgdump, svgDumpState, 1, pTotal, failAt) IN
             /\ Reads(PointWords(pTotal))
             /\ view' = FoldPoints(view, ps, 1)
             /\ EndRead2(3, pTotal, r.st, r.calls, FALSE, 0,
                         PointsRead(output[1], ps, <<>>), 5,
                         PointWords(pTotal), PointWords(pTotal))
    /\ UNCHANGED <<color, strokeColor, strokeWidth, hasFill, hasStroke, patch>>

(* for(int i=0; i<(pTotal/3); i++) if(dumpSVGCubic(fout, &cubics[i])) break; *)
RECURSIVE CubicLoop2(_, _, _, _, _)
CubicLoop2(dump, st, i, count, failAt) ==
    IF i > count THEN [st |-> st, calls |-> <<>>]
    ELSE LET r == dumpSVGCubic2(dump, st, failAt # i) IN
         IF r.ret # 0 THEN [st |-> r.st, calls |-> <<Call("Cubic", st, r)>>]
         ELSE LET rest == CubicLoop2(dump, r.st, i + 1, count, failAt) IN
              [st |-> rest.st, calls |-> <<Call("Cubic", st, r)>> \o rest.calls]

CMD2_POINTS_CUBICS ==
    /\ InLoop2
    /\ \E pTotal \in 0..MaxPts :
          IF pTotal % 3 # 0 \/ pTotal = 0
          THEN /\ EndRead2(4, pTotal, svgDumpState, <<>>, TRUE, 0,
                           Block(4, pTotal, <<>>, InPath(svgdump, svgDumpState)), 5, 0, 0)
               /\ UNCHANGED view
          ELSE \/ \* no memory: break
                  /\ EndRead2(4, pTotal, svgDumpState, <<>>, TRUE, 0, <<>>, 5, 0, 0)
                  /\ UNCHANGED view
               \/ \* the points cannot all be read: break
                  /\ Short(PointWords(pTotal))
                  /\ EndRead2(4, pTotal, svgDumpState, <<>>, TRUE, 0, <<>>, 5,
                              PointWords(pTotal), Got)
                  /\ UNCHANGED view
               \/ \E ps \in PointRuns(output[1], pTotal) :
                  \E failAt \in IF svgdump THEN 0..(pTotal \div 3) ELSE {0} :
                     LET r == CubicLoop2(svgdump, svgDumpState, 1, pTotal \div 3, failAt) IN
                     /\ Reads(PointWords(pTotal))
                     /\ view' = FoldPoints(view, ps, 1)
                     /\ EndRead2(4, pTotal, r.st, r.calls, FALSE, 0,
                                 PointsRead(output[1], ps,
                                            Block(4, pTotal, r.calls,
                                                  InPath(svgdump, svgDumpState))),
                                 5, PointWords(pTotal), PointWords(pTotal))
    /\ UNCHANGED <<color, strokeColor, strokeWidth, hasFill, hasStroke, patch>>

CMD2_STROKE_COLOR ==
    /\ InLoop2
    /\ \E c \in Colors2 : strokeColor' = c
    /\ EndStep2(svgDumpState, <<>>, FALSE, 0)
    /\ UNCHANGED <<color, strokeWidth, hasFill, hasStroke, view, patch>>

(* fillColor is kept in color *)
CMD2_FILL_COLOR ==
    /\ InLoop2
    /\ \E c \in Colors2 : color' = c
    /\ EndStep2(svgDumpState, <<>>, FALSE, 0)
    /\ UNCHANGED <<strokeColor, strokeWidth, hasFill, hasStroke, view, patch>>

SubEvent(sub, tok) ==
    IF output[1].paths \/ (output[1].ends /\ sub = 2)
    THEN <<[cmd |-> 7, sub |-> sub, tok |-> tok, seen |-> output[1].subs]>>
    ELSE <<>>

(* END_PATH: the first parameter word selects what is done; the return      *)
(* values of dumpSVGClosePath and dumpSVGEndPath are dropped.               *)
CMD2_END_PATH ==
    /\ InLoop2
    /\ \/ \* 1: close the path
          \E ok \in Fprintf :
             LET r == dumpSVGClosePath2(svgdump, svgDumpState, ok) IN
             /\ hasStroke' = Val(FALSE)
             /\ hasFill' = Val(TRUE)
             /\ EndBlock2(r.st, <<Call("Close", svgDumpState, r)>>, FALSE, 0,
                          SubEvent(1, r.tok))
       \/ \* 0: has stroke
          /\ hasStroke' = Val(TRUE)
          /\ EndBlock2(svgDumpState, <<>>, FALSE, 0, SubEvent(0, NoTok))
          /\ UNCHANGED hasFill
       \/ \* 2: end the path; the flags and colors are read when it is written
          LET writes == svgdump /\ svgDumpState \in {DUMPSTATE_AFTER_LINE,
                                                     DUMPSTATE_AFTER_CLOSE_PATH} IN
          \E ok \in Fprintf,
             hf \in IF writes THEN BoolOf(hasFill) ELSE {FALSE},
             hs \in IF writes THEN BoolOf(hasStroke) ELSE {FALSE} :
          \E fc \in IF writes /\ hf THEN AnyOf2(color) ELSE {color},
             sc \in IF writes /\ hs THEN AnyOf2(strokeColor) ELSE {strokeColor} :
             LET r == dumpSVGEndPath2(svgdump, svgDumpState, hf, fc, hs,
                                      strokeWidth, sc, ok)
             IN  /\ EndBlock2(r.st, <<Call("PathEnd", svgDumpState, r)>>, FALSE, 0,
                               SubEvent(2, r.tok))
                 /\ UNCHANGED <<hasFill, hasStroke>>
       \/ \* 3: has no stroke or fill
          /\ hasFill' = Val(FALSE)
          /\ EndBlock2(svgDumpState, <<>>, FALSE, 0, SubEvent(3, NoTok))
          /\ UNCHANGED hasStroke
       \/ \* 4 and 5: markers
          /\ EndStep2(svgDumpState, <<>>, FALSE, 0)
          /\ UNCHANGED <<hasFill, hasStroke>>
       \/ \* any other parameter: break
          /\ EndStep2(svgDumpState, <<>>, TRUE, 0)
          /\ UNCHANGED <<hasFill, hasStroke>>
    /\ UNCHANGED <<color, strokeColor, strokeWidth, view, patch>>

(* STROKE_FLAG_A and STROKE_FLAG_B: strokeFlagA and strokeFlagB are stored   *)
(* and never read                                                            *)
CMD2_STROKE_FLAG ==
    /\ InLoop2
    /\ EndStep2(svgDumpState, <<>>, FALSE, 0)
    /\ UNCHANGED <<color, strokeColor, strokeWidth, hasFill, hasStroke, view, patch>>

(* strokeWidth = (cmdw.words[2] << 16) & cmdw.words[1], the 32 bits in two   *)
(* halves: bits 16..31 are w2 in the shifted word (also when its top bit is  *)
(* set, in every build) and 0 in the other operand, bits 0..15 are 0 in the  *)
(* shifted word and w1 in the other operand                                  *)
CMD2_STROKE_WIDTH ==
    /\ InLoop2
    /\ \E w1 \in WidthWords, w2 \in WidthWords :
          strokeWidth' = BitAnd(w2, 0) * 65536 + BitAnd(0, w1)
    /\ EndStep2(svgDumpState, <<>>, FALSE, 0)
    /\ UNCHANGED <<color, strokeColor, hasFill, hasStroke, view, patch>>

(* an opcode that is not in cmdTable: printParams *)
CMD2_UNKNOWN ==
    /\ InLoop2
    /\ EndStep2(svgDumpState, <<>>, FALSE, 0)
    /\ UNCHANGED <<color, strokeColor, strokeWidth, hasFill, hasStroke, view, patch>>

(* After the loop: with SVG output the run fails unless the footer was      *)
(* written, and it fails when cmdCounter did not get to cmdCount.           *)
ExitStatus2(dump, st, counter, count) ==
    IF (dump /\ st # DUMPSTATE_AFTER_FOOTER) \/ counter # count THEN 1 ELSE 0

(* fclose(fin1); fclose(fin2); if(svgdump) fclose(fout); *)
Closed2(open, dump) == open \ ({"fin1", "fin2"} \cup (IF dump THEN {"fout"} ELSE {}))

Exit2 ==
    /\ prog = "ubvff2"
    /\ pc = "post"
    /\ pc' = "done"
    /\ error' = ExitStatus2(svgdump, svgDumpState, cmdCounter, cmdCount)
    /\ calls' = <<>>
    /\ UNCHANGED <<prog, svgdump, svgDumpState, stateErr, mon, frame>>
    /\ UNCHANGED dataVars
    /\ output' = <<[output[1] EXCEPT !.open = Closed2(@, svgdump)]>>
    /\ UNCHANGED <<dec2Vars, asmVars, input>>

Init2As(watch) ==
    /\ prog = "ubvff2"
    /\ svgdump \in BOOLEAN
    /\ svgDumpState = DUMPSTATE_BEGIN
    /\ calls = <<>>
    /\ pc = "start"
    /\ error = -1
    /\ stateErr = FALSE
    /\ mon = MonInit
    /\ frame = FrameInit
    /\ title = <<>>
    /\ header = "unset"
    /\ color = "unset"
    /\ strokeColor = "unset"
    /\ strokeWidth = scaleFactor2
    /\ cmdCount = 0
    /\ cmdCounter = 0
    /\ hasFill = Unset
    /\ hasStroke = Unset
    /\ view = ViewInit2
    /\ patch = <<>>
    /\ AsmIdle
    /\ input = watch
    /\ output = <<>>

Init2 == Init2As("none")

(* ubvff2 with the two file cursors watched, in the runs without SVG output: *)
(* every handler reads before it calls an emit operation, so what a command  *)
(* reads does not depend on the emitter.                                     *)
InitCursor2 == Init2As("cursor") /\ ~svgdump

Next2 ==
    \/ Start2
    \/ ReadCmdFails2
    \/ CMD2_END_FILE
    \/ CMD2_MOVE_TO
    \/ CMD2_POINTS_LINES
    \/ CMD2_POINTS_CUBICS
    \/ CMD2_STROKE_COLOR
    \/ CMD2_FILL_COLOR
    \/ CMD2_END_PATH
    \/ CMD2_STROKE_FLAG
    \/ CMD2_STROKE_WIDTH
    \/ CMD2_UNKNOWN
    \/ Exit2

Spec2 == Init2 /\ [][Next2]_vars

SpecCursor2 == InitCursor2 /\ [][Next2]_vars

(* ubvff2 with SVG output and the END_PATH sub-events watched *)
InitPaths2 == Init2As("paths") /\ svgdump

SpecPaths2 == InitPaths2 /\ [][Next2]_vars

(* ubvff2 with SVG output and the path ends written watched: the record of  *)
(* an END_PATH with sub-code 2 is kept, with the token written               *)
InitEnds2 == Init2As("ends") /\ svgdump

SpecEnds2 == InitEnds2 /\ [][Next2]_vars

(* ubvff2 with SVG output and the points read watched *)
InitView2 == Init2As("view") /\ svgdump

SpecView2 == InitView2 /\ [][Next2]_vars

(* Both decoders. *)
InitDec == Init1 \/ Init2

NextDec == Next1 \/ Next2

SpecDec == InitDec /\ [][NextDec]_vars

-----------------------------------------------------------------------------
(* vecass.c: the Dump List.  dumpList is the sequence dumpList[0] ..          *)
(* dumpList[dumpListPos-1], so dumpListPos is Len(dumpList).                 *)

MAX_DUMPLIST == 100

FileNums == {1, 2, 3}       \* the fragments NNNNN.svg an entry can name

LayerNums == {1, 2}

Entry(filenum, layernum) == [filenum |-> filenum, layernum |-> layernum]

(* An addToDumpList that looks the file number up first. *)
addToDumpList_Dedup(list, filenum, layernum) ==
    IF \E i \in 1..Len(list) : list[i].filenum = filenum THEN list
    ELSE Append(list, Entry(filenum, layernum))

(* int addToDumpList(filenum, layernum): the entry is stored at dumpListPos  *)
(* and dumpListPos is incremented; called with fewer than MAX_DUMPLIST       *)
(* entries (AddOverflows says when it is not).                               *)
addToDumpList(list, filenum, layernum) == Append(list, Entry(filenum, layernum))

(* dumpList[dumpListPos] is outside the array *)
AddOverflows(list) == Len(list) >= MAX_DUMPLIST

(* A comparison that also swaps equal neighbours. *)
OutOfOrder_OrEqual(a, b) == a >= b

(* if(a>b): the neighbours are swapped *)
OutOfOrder(a, b) == a > b

(* for(int i=0; i<reps; i++): refs is dumpListRefs, i counts from 1 here *)
RECURSIVE SortInner(_, _, _, _)
SortInner(list, s, i, reps) ==
    IF i > reps THEN s
    ELSE LET a == list[s.refs[i]].layernum
             b == list[s.refs[i + 1]].layernum
         IN  IF OutOfOrder(a, b)
             THEN SortInner(list,
                            [refs |-> [s.refs EXCEPT ![i] = s.refs[i + 1],
                                                     ![i + 1] = s.refs[i]],
                             changed |-> TRUE],
                            i + 1, reps)
             ELSE SortInner(list, s, i + 1, reps)

(* for(int reps=(dumpListPos-1); reps>0; reps--) *)
RECURSIVE SortOuter(_, _, _)
SortOuter(list, s, reps) ==
    IF reps <= 0 THEN s ELSE SortOuter(list, SortInner(list, s, 1, reps), reps - 1)

(* void sortDumpList(): the list it leaves in dumpList *)
sortDumpList(list) ==
    IF Len(list) < 2 THEN list
    ELSE LET s == SortOuter(list, [refs |-> [i \in 1..Len(list) |-> i], changed |-> FALSE],
                            Len(list) - 1)
         IN  IF s.changed THEN [i \in 1..Len(list) |-> list[s.refs[i]]] ELSE list

-----------------------------------------------------------------------------
(* sortDumpList on its own, applied to every list of up to MaxList entries. *)

MaxList == 3        \* longest Dump List sorted

RECURSIVE ListsUpTo(_)
ListsUpTo(n) ==
    IF n = 0 THEN {<<>>}
    ELSE ListsUpTo(n - 1) \cup
         {Append(l, e) : l \in {x \in ListsUpTo(n - 1) : Len(x) = n - 1},
                         e \in [filenum : FileNums, layernum : LayerNums]}

InitSort ==
    /\ prog = "sortDumpList"
    /\ input \in ListsUpTo(MaxList)
    /\ output = <<>>
    /\ dumpList = input
    /\ depth = 0
    /\ files = <<>>
    /\ fout = NoFile
    /\ leafRefs = <<>>
    /\ DecIdle
    /\ Dec2Idle

CallSortDumpList ==
    /\ prog = "sortDumpList"
    /\ output = <<>>
    /\ dumpList' = sortDumpList(dumpList)
    /\ output' = <<0>>
    /\ UNCHANGED <<prog, input, depth, files, fout, leafRefs>>
    /\ UNCHANGED <<decVars, dec2Vars>>

NextSort == CallSortDumpList

SpecSort == InitSort /\ [][NextSort]_vars

-----------------------------------------------------------------------------
(* vecass.c: the files on disk.  files.cmd[n] is the command file NNNNN.bin, *)
(* files.frag[n] the fragment NNNNN.svg; the command file given on the       *)
(* command line is RootFile.                                                *)

MaxDepth == 10      \* if(depth==10): not going deeper

CmdFiles == {1, 2}

RootFile == 1

FragNums == {1, 2}

Missing == [kind |-> "missing"]

(* a command file: the header words h0, h1, h2 and the 16-bit commands after *)
(* the six header words                                                      *)
CmdFile(h0, h1, h2, body) == [kind |-> "file", h0 |-> h0, h1 |-> h1, h2 |-> h2, body |-> body]

(* a basic include file: header 1, 0, filenum << 16 | layernum *)
Leaf(filenum, layernum) == CmdFile(1, 0, filenum * 65536 + layernum, <<>>)

(* the commands of a group file: 0, or an include (3 or 4) of incnum; short  *)
(* says the file ends before incnum                                          *)
Nop == [cmd |-> 0, incnum |-> 0, short |-> FALSE]

Inc(cmd, n) == [cmd |-> cmd, incnum |-> n, short |-> FALSE]

IncShort == [cmd |-> 3, incnum |-> 0, short |-> TRUE]

Cmds == {Nop, Inc(3, 1), Inc(4, 2)}

GroupBodies ==
    {<<>>, <<IncShort>>} \cup {<<a>> : a \in Cmds} \cup {<<a, b>> : a \in Cmds, b \in Cmds}

CmdFileContents ==
    {Missing}
      \cup {Leaf(f, l) : f \in FragNums, l \in LayerNums}
      \cup {CmdFile(1, 1, 0, <<>>),      \* weird header
            CmdFile(2, 0, 0, <<>>),      \* skip.type
            CmdFile(4, 72, 0, <<>>),     \* skip.0x48
            CmdFile(4, 0, 1, <<>>)}      \* skip.not_group
      \cup {CmdFile(h0, 0, 0, body) : h0 \in {3, 4}, body \in GroupBodies}

(* a fragment: its viewBox and the bytes between its header line and footer; *)
(* "bad" has no viewBox that sscanf can read                                 *)
Frag(x1, y1, x2, y2, body) ==
    [kind |-> "svg", x1 |-> x1, y1 |-> y1, x2 |-> x2, y2 |-> y2, body |-> body]

FragContents(n) ==
    IF n = 1 THEN {Missing, Frag(0, 0, 100, 50, "body1"), [kind |-> "bad"]}
    ELSE {Missing, Frag(-20, 0, 30, 200, "body2")}

(* A mutant of ViewInitAsm: the box starts empty at the origin. *)
ViewInitAsm_Zero == [minX |-> 0, minY |-> 0, maxX |-> 0, maxY |-> 0]

(* viewMinX=0, viewMinY=0, viewMaxX=1, viewMaxY=1 *)
ViewInitAsm == [minX |-> 0, minY |-> 0, maxX |-> 1, maxY |-> 1]

(* The globals processFile works on: depth, the Dump List, the output file   *)
(* (open says fopen was called, closed that fclose was), the viewport; refs  *)
(* records the include references reached, ub that the behaviour became      *)
(* undefined.                                                                *)
(* What is noted of the scan besides: opens counts the fopen calls on        *)
(* command files and maxOpen is the greatest depth one was made at (-1:      *)
(* none), limit counts the calls that returned at the depth limit, skips the *)
(* includes of a file classified as not applicable, fails the includes whose *)
(* processFile returned non-zero, patched that setViewbox returned 0.        *)
AsmStart ==
    [depth |-> 0, dumpList |-> <<>>, fout |-> NoFile, open |-> FALSE, closed |-> FALSE,
     view |-> ViewInitAsm, refs |-> <<>>, ub |-> FALSE,
     opens |-> 0, maxOpen |-> -1, limit |-> 0, skips |-> 0, fails |-> 0, patched |-> FALSE]

RECURSIVE SpliceLoop(_, _, _)

(* A mutant of SpliceLoop: a fragment that cannot be opened ends the loop    *)
(* with return 1.                                                            *)
SpliceLoop_MissingFatal(fs, s, i) ==
    IF i > Len(s.dumpList)
    THEN LET v == s.view
             text == ViewboxText(v.minX, v.minY, v.maxX, v.maxY)
         IN  IF UbOutcomes(text) # {"none"} THEN [s |-> [s EXCEPT !.ub = TRUE], ret |-> 1]
             ELSE LET r == setViewbox(s.fout, v.minX, v.minY, v.maxX, v.maxY,
                                      "ok", 0, "none", 0)
                  IN  [s |-> [s EXCEPT !.fout = r.file, !.patched = (r.ret = 0)],
                       ret |-> r.ret]
    ELSE LET n == s.dumpList[i].filenum
             g == IF n \in DOMAIN fs.frag THEN fs.frag[n] ELSE Missing
         IN  IF g.kind = "missing" \/ g.kind = "bad" THEN [s |-> s, ret |-> 1]
             ELSE LET v == s.view
                      vw == [minX |-> IF g.x1 < v.minX THEN g.x1 ELSE v.minX,
                             minY |-> IF g.y1 < v.minY THEN g.y1 ELSE v.minY,
                             maxX |-> IF g.x2 > v.maxX THEN g.x2 ELSE v.maxX,
                             maxY |-> IF g.y2 > v.maxY THEN g.y2 ELSE v.maxY]
                      out == Fwrite(s.fout, <<"<g>\n", g.body, "</g>\n">>)
                  IN  SpliceLoop(fs, [s EXCEPT !.view = vw, !.fout = out], i + 1)

(* dumpFromList, one entry of the loop over the sorted list, then setViewbox *)
SpliceLoop(fs, s, i) ==
    IF i > Len(s.dumpList)
    THEN LET v == s.view
             text == ViewboxText(v.minX, v.minY, v.maxX, v.maxY)
         IN  IF UbOutcomes(text) # {"none"} THEN [s |-> [s EXCEPT !.ub = TRUE], ret |-> 1]
             ELSE LET r == setViewbox(s.fout, v.minX, v.minY, v.maxX, v.maxY,
                                      "ok", 0, "none", 0)
                  IN  [s |-> [s EXCEPT !.fout = r.file, !.patched = (r.ret = 0)],
                       ret |-> r.ret]
    ELSE LET n == s.dumpList[i].filenum
             g == IF n \in DOMAIN fs.frag THEN fs.frag[n] ELSE Missing
         IN  IF g.kind = "missing" THEN SpliceLoop(fs, s, i + 1)
             ELSE IF g.kind = "bad" THEN [s |-> s, ret |-> 1]
             ELSE LET v == s.view
                      vw == [minX |-> IF g.x1 < v.minX THEN g.x1 ELSE v.minX,
                             minY |-> IF g.y1 < v.minY THEN g.y1 ELSE v.minY,
                             maxX |-> IF g.x2 > v.maxX THEN g.x2 ELSE v.maxX,
                             maxY |-> IF g.y2 > v.maxY THEN g.y2 ELSE v.maxY]
                      out == Fwrite(s.fout, <<"<g>\n", g.body, "</g>\n">>)
                  IN  SpliceLoop(fs, [s EXCEPT !.view = vw, !.fout = out], i + 1)

(* int dumpFromList() *)
dumpFromList(fs, s) ==
    SpliceLoop(fs, [s EXCEPT !.dumpList = sortDumpList(s.dumpList)], 1)

(* A mutant of AtDepthLimit: the limit is tested two levels late. *)
AtDepthLimit_Late(d) == d = MaxDepth + 2

(* if(depth==10) *)
AtDepthLimit(d) == d = MaxDepth

(* A mutant of SkipThree: a three-command file is never skipped. *)
SkipThree_Never(h0, d) == FALSE

(* else if(header[0]==3 && depth==0) *)
SkipThree(h0, d) == h0 = 3 /\ d = 0

(* the header checks that classify a file as not applicable: skip.type,      *)
(* skip.0x48, skip.not_group                                                 *)
NotApplicable(c) ==
    \/ c.h0 < 3 \/ c.h0 >= MAX_DUMPLIST
    \/ c.h1 = 72
    \/ c.h1 # 0 \/ c.h2 # 0

(* int processFile(char * baseFilename), on the command file n, and its      *)
(* command loop from the i-th command of body on                             *)
RECURSIVE processFile(_, _, _), IncludeLoop(_, _, _, _)
processFile(fs, s, n) ==
    LET c == IF n \in DOMAIN fs.cmd THEN fs.cmd[n] ELSE Missing
        so == [s EXCEPT !.opens = @ + 1,
                        !.maxOpen = IF s.depth > @ THEN s.depth ELSE @]
    IN
    IF AtDepthLimit(s.depth) THEN [s |-> [s EXCEPT !.limit = @ + 1], ret |-> 0]
    ELSE IF c.kind = "missing" THEN [s |-> so, ret |-> 1]
    ELSE IF c.h0 = 1
         THEN IF c.h1 # 0 THEN [s |-> so, ret |-> 1]
              ELSE IF s.depth = 0 THEN [s |-> so, ret |-> 0]
              ELSE LET filenum == c.h2 \div 65536
                       layernum == c.h2 % 65536
                   IN  IF AddOverflows(s.dumpList)
                       THEN [s |-> [so EXCEPT !.ub = TRUE], ret |-> 1]
                       ELSE [s |-> [so EXCEPT
                                      !.dumpList = addToDumpList(@, filenum, layernum),
                                      !.refs = Append(@, Entry(filenum, layernum))],
                             ret |-> 0]
    ELSE IF c.h0 < 3 \/ c.h0 >= MAX_DUMPLIST THEN [s |-> so, ret |-> 1]
    ELSE IF SkipThree(c.h0, s.depth) THEN [s |-> so, ret |-> 1]
    ELSE IF NotApplicable(c) THEN [s |-> so, ret |-> 1]
    ELSE LET s1 == IF s.depth = 0
                   THEN [so EXCEPT !.open = TRUE,
                                   !.fout = Fwrite(NoFile, SvgHeader)]
                   ELSE so
             s2 == IncludeLoop(fs, s1, c.body, 1)
         IN  IF s2.ub THEN [s |-> s2, ret |-> 1]
             ELSE IF s2.depth = 0
             THEN LET d == dumpFromList(fs, s2) IN
                  IF d.ret # 0 THEN [s |-> d.s, ret |-> 1]
                  ELSE [s |-> [d.s EXCEPT !.fout = Fwrite(@, <<"</svg>\n">>),
                                          !.closed = TRUE],
                        ret |-> 0]
             ELSE [s |-> s2, ret |-> 0]

IncludeLoop(fs, s, body, i) ==
    IF i > Len(body) \/ s.ub THEN s
    ELSE LET c == body[i] IN
         IF c.cmd = 3 \/ c.cmd = 4
         THEN IF c.short THEN s
              ELSE LET inc == IF c.incnum \in DOMAIN fs.cmd THEN fs.cmd[c.incnum]
                                     ELSE Missing
                       na == inc.kind = "file" /\ inc.h0 # 1 /\ NotApplicable(inc)
                                 /\ ~AtDepthLimit(s.depth + 1)
                       r == processFile(fs, [s EXCEPT !.depth = @ + 1], c.incnum)
                   IN  IF r.ret # 0
                       THEN [r.s EXCEPT !.fails = @ + 1,
                                        !.skips = IF na THEN @ + 1 ELSE @]
                       ELSE IncludeLoop(fs, [r.s EXCEPT !.depth = @ - 1], body, i + 1)
         ELSE IncludeLoop(fs, s, body, i + 1)

(* The files a run can open: a command file other than RootFile exists only  *)
(* when RootFile includes it, a fragment only when a leaf names it (no other *)
(* file name is ever built, so other files cannot change the run).           *)
Includes(c, n) ==
    c.kind = "file" /\ \E i \in 1..Len(c.body) : ~c.body[i].short /\ c.body[i].incnum = n
                                                  /\ c.body[i].cmd # 0

Names(c, n) == c.kind = "file" /\ c.h0 = 1 /\ c.h1 = 0 /\ c.h2 \div 65536 = n

FileSystems ==
    {fs \in [cmd : [CmdFiles -> CmdFileContents],
             frag : {f \in [FragNums -> UNION {FragContents(n) : n \in FragNums}] :
                        \A n \in FragNums : f[n] \in FragContents(n)}] :
        /\ \A n \in CmdFiles \ {RootFile} :
              fs.cmd[n] # Missing => Includes(fs.cmd[RootFile], n)
        /\ \A n \in FragNums :
              fs.frag[n] # Missing => \E m \in CmdFiles : Names(fs.cmd[m], n)}

(* dumpFromList on its own: the output holds the header, the Dump List is    *)
(* any list of up to MaxList entries, each fragment is there or not.         *)
FragSystems ==
    {f \in [FragNums -> UNION {FragContents(n) : n \in FragNums}] :
        \A n \in FragNums : f[n] \in FragContents(n)}

InitDump ==
    /\ prog = "dumpFromList"
    /\ input \in [list : ListsUpTo(MaxList), frag : FragSystems]
    /\ output = <<>>
    /\ dumpList = input.list
    /\ files = [cmd |-> <<>>, frag |-> input.frag]
    /\ depth = 0
    /\ fout = Fwrite(NoFile, SvgHeader)
    /\ leafRefs = <<>>
    /\ DecRest
    /\ svgdump = FALSE
    /\ cmdCount = 0
    /\ cmdCounter = 0
    /\ hasFill = Unset
    /\ hasStroke = Unset
    /\ patch = <<>>
    /\ view = ViewInitAsm

CallDumpFromList ==
    /\ prog = "dumpFromList"
    /\ output = <<>>
    /\ LET r == dumpFromList(files, [AsmStart EXCEPT !.dumpList = dumpList,
                                                     !.fout = fout, !.open = TRUE])
       IN  /\ dumpList' = r.s.dumpList
           /\ fout' = r.s.fout
           /\ view' = r.s.view
           /\ output' = <<[ret |-> r.ret, patched |-> r.s.patched, ub |-> r.s.ub]>>
    /\ UNCHANGED <<prog, input, depth, files, leafRefs>>
    /\ UNCHANGED decVars
    /\ UNCHANGED <<cmdCount, cmdCounter, hasFill, hasStroke, patch>>

NextDump == CallDumpFromList

SpecDump == InitDump /\ [][NextDump]_vars

InitAsm ==
    /\ prog = "vecass"
    /\ files \in FileSystems
    /\ pc = "start"
    /\ error = -1
    /\ dumpList = <<>>
    /\ depth = 0
    /\ fout = NoFile
    /\ leafRefs = <<>>
    /\ view = ViewInitAsm
    /\ svgdump = FALSE
    /\ svgDumpState = DUMPSTATE_BEGIN
    /\ calls = <<>>
    /\ stateErr = FALSE
    /\ mon = MonInit
    /\ frame = FrameInit
    /\ title = <<>>
    /\ header = "unset"
    /\ color = "unset"
    /\ strokeColor = "unset"
    /\ strokeWidth = 0
    /\ cmdCount = 0
    /\ cmdCounter = 0
    /\ hasFill = Unset
    /\ hasStroke = Unset
    /\ patch = <<>>
    /\ input = "none"
    /\ output = <<>>

(* main: return processFile(filename) *)
RunVecass ==
    /\ prog = "vecass"
    /\ pc = "start"
    /\ LET r == processFile(files, AsmStart, RootFile) IN
          /\ pc' = IF r.s.ub THEN "undefined" ELSE "done"
          /\ error' = r.ret
          /\ dumpList' = r.s.dumpList
          /\ depth' = r.s.depth
          /\ fout' = r.s.fout
          /\ view' = r.s.view
          /\ leafRefs' = r.s.refs
          /\ output' = <<[open |-> r.s.open, closed |-> r.s.closed, patched |-> r.s.patched,
                           opens |-> r.s.opens, maxOpen |-> r.s.maxOpen,
                           limit |-> r.s.limit, skips |-> r.s.skips, fails |-> r.s.fails]>>
    /\ UNCHANGED <<prog, files, input, svgdump, svgDumpState, calls, stateErr, mon, frame>>
    /\ UNCHANGED dataVars
    /\ UNCHANGED <<cmdCount, cmdCounter, hasFill, hasStroke, patch>>

NextAsm == RunVecass

SpecAsm == InitAsm /\ [][NextAsm]_vars

(* The command loop of a group file that goes on including one leaf file:    *)
(* nothing ends the loop but the end of the file, so a group file can hold   *)
(* any number of includes.  LeafFiles is the directory, the leaf 00002.bin   *)
(* naming layer 1 of fragment 1; the loop runs in the top-level file.  The   *)
(* record of a step is the index dumpListPos at which the include stores its *)
(* entry, whether that is outside the array (ub) and the value processFile   *)
(* returned.                                                                 *)
LeafFiles == [cmd |-> <<Missing, Leaf(1, 1)>>, frag |-> <<Missing, Missing>>]

InitList ==
    /\ prog = "includeLeaf"
    /\ input = "none"
    /\ output = <<>>
    /\ dumpList = <<>>
    /\ depth = 0
    /\ files = LeafFiles
    /\ fout = NoFile
    /\ leafRefs = <<>>
    /\ DecIdle
    /\ Dec2Idle

(* depth++; if(processFile(nextFilename)) break; depth--; *)
IncludeLeaf ==
    /\ prog = "includeLeaf"
    /\ pc = "idle"
    /\ LET r == processFile(files, [AsmStart EXCEPT !.depth = depth + 1,
                                                    !.dumpList = dumpList], 2)
       IN  /\ dumpList' = r.s.dumpList
           /\ depth' = IF r.ret # 0 THEN r.s.depth ELSE r.s.depth - 1
           /\ pc' = IF r.s.ub THEN "undefined" ELSE IF r.ret # 0 THEN "done" ELSE "idle"
           /\ output' = <<[index |-> Len(dumpList), ub |-> r.s.ub, ret |-> r.ret]>>
    /\ UNCHANGED <<prog, input, files, fout, leafRefs>>
    /\ UNCHANGED <<svgdump, svgDumpState, calls, error, stateErr, mon, frame>>
    /\ UNCHANGED dataVars
    /\ UNCHANGED dec2Vars

NextList == IncludeLeaf

SpecList == InitList /\ [][NextList]_vars

-----------------------------------------------------------------------------
(* ubvff1.c: bo_fread of one element of size 4 on either host.  A 32-bit     *)
(* object is the four bytes of its storage in address order; its value is    *)
(* written as its four base-256 digits, the most significant first.          *)

Hosts == {"little", "big"}

(* the bytes tried in each of the four positions *)
FileBytes == {0, 1, 128, 255}

(* the value a host reads from four bytes of storage *)
Load32(host, mem) ==
    IF host = "little" THEN <<mem[4], mem[3], mem[2], mem[1]>> ELSE mem

(* the storage a host gives a value *)
Store32(host, v) ==
    IF host = "little" THEN <<v[4], v[3], v[2], v[1]>> ELSE v

(* uint32_t reverseByteOrder4(uint32_t input) *)
reverseByteOrder4(v) == <<v[4], v[3], v[2], v[1]>>

(* return (*((uint8_t*)(&i))) == 0x67, with i = 0x01234567 *)
systemIsLittleEndian(host) == Store32(host, <<1, 35, 69, 103>>)[1] = 103

(* bo_fread(ptr, 4, 1, stream) with the element read in full: what is at ptr *)
(* afterwards, bytes being the four bytes of the file                        *)
bo_fread(host, bytes) ==
    IF systemIsLittleEndian(host)
    THEN Store32(host, reverseByteOrder4(Load32(host, bytes)))
    ELSE bytes

(* vecass.c (ubvff2): uint32_t reverseByteMixed(uint32_t input), the bytes   *)
(* of each 16-bit half change places                                         *)
reverseByteMixed(v) == <<v[2], v[1], v[4], v[3]>>

(* uint32_t reverseByteMixedForBigEndian(uint32_t input): the halves change  *)
(* places                                                                    *)
reverseByteMixedForBigEndian(v) == <<v[3], v[4], v[1], v[2]>>

(* ubvff2's bo_fread(ptr, 4, 1, stream) with the element read in full *)
bo_fread2(host, bytes) ==
    IF systemIsLittleEndian(host)
    THEN Store32(host, reverseByteMixed(Load32(host, bytes)))
    ELSE Store32(host, reverseByteMixedForBigEndian(Load32(host, bytes)))

(* struct BIN_COLOR { uint8_t r; uint8_t g; uint8_t b; uint8_t unused; } at  *)
(* the storage mem                                                           *)
ColorOf(mem) == [r |-> mem[1], g |-> mem[2], b |-> mem[3], unused |-> mem[4]]

(* what the decoder on a host has after the read: in ubvff1 the uint32_t at  *)
(* ptr (an opcode, a count, a coordinate) and the color record at ptr, in    *)
(* ubvff2 the coordinate at ptr                                              *)
ReadOn(host, bytes) ==
    LET mem == bo_fread(host, bytes)
    IN  [word |-> Load32(host, mem), color |-> ColorOf(mem),
         coord |-> Load32(host, bo_fread2(host, bytes))]

InitOrder ==
    /\ prog = "bo_fread"
    /\ input \in [1..4 -> FileBytes]
    /\ output = <<>>
    /\ DecIdle
    /\ Dec2Idle
    /\ AsmIdle

CallBoFread ==
    /\ prog = "bo_fread"
    /\ output = <<>>
    /\ output' = <<[h \in Hosts |-> ReadOn(h, input)]>>
    /\ UNCHANGED <<prog, input>>
    /\ UNCHANGED <<decVars, dec2Vars, asmVars>>

NextOrder == CallBoFread

SpecOrder == InitOrder /\ [][NextOrder]_vars

-----------------------------------------------------------------------------
(* The transition table of the Type 1 emitter as the specification states   *)
(* it: the states each operation is defined for, and the state it leads to. *)

SourceStates1(op) ==
    CASE op = "Header" -> {DUMPSTATE_BEGIN}
      [] op = "LayerStart" -> {DUMPSTATE_AFTER_HEADER, DUMPSTATE_AFTER_END_LAYER}
      [] op = "PathStart" -> {DUMPSTATE_AFTER_START_LAYER, DUMPSTATE_AFTER_END_PATH,
                              DUMPSTATE_AFTER_CLOSE_PATH, DUMPSTATE_AFTER_LINE}
      [] op \in {"Line", "Cubic"} -> {DUMPSTATE_AFTER_START_PATH, DUMPSTATE_AFTER_LINE}
      [] op = "Close" -> {DUMPSTATE_AFTER_LINE}
      [] op = "PathEnd" -> {DUMPSTATE_AFTER_LINE, DUMPSTATE_AFTER_CLOSE_PATH}
      [] op = "LayerEnd" -> {DUMPSTATE_AFTER_END_PATH, DUMPSTATE_AFTER_START_LAYER}
      [] op = "Footer" -> {DUMPSTATE_AFTER_END_LAYER}

DestState1(op) ==
    CASE op = "Header" -> DUMPSTATE_AFTER_HEADER
      [] op = "LayerStart" -> DUMPSTATE_AFTER_START_LAYER
      [] op = "PathStart" -> DUMPSTATE_AFTER_START_PATH
      [] op \in {"Line", "Cubic"} -> DUMPSTATE_AFTER_LINE
      [] op = "Close" -> DUMPSTATE_AFTER_CLOSE_PATH
      [] op = "PathEnd" -> DUMPSTATE_AFTER_END_PATH
      [] op = "LayerEnd" -> DUMPSTATE_AFTER_END_LAYER
      [] op = "Footer" -> DUMPSTATE_AFTER_FOOTER

(* C1: with SVG output enabled, a Type 1 emit operation returns 0 only when  *)
(* invoked in one of its source states, and then the emitter is in the       *)
(* operation's one destination state; invoked in any other state it returns  *)
(* a state error (and in a source state it never reports a state error).  A  *)
(* path start writes a new path opener from AfterLayerStart / AfterPathEnd   *)
(* and a continuation move from AfterClose / AfterLine.                      *)
C1_EmitterTransitions ==
    (prog = "emit1" /\ svgdump) =>
        \A i \in 1..Len(calls) :
            LET c == calls[i] IN
            /\ c.ret = 0 => /\ c.from \in SourceStates1(c.op)
                            /\ c.to = DestState1(c.op)
                            /\ svgDumpState = c.to
                            /\ c.tok.op # ""
            /\ c.from \notin SourceStates1(c.op) => c.ret = 1 /\ c.err = "state"
            /\ c.from \in SourceStates1(c.op) => c.err # "state"
            /\ (c.op = "PathStart" /\ c.ret = 0) =>
                    c.tok.op = IF c.from \in {DUMPSTATE_AFTER_START_LAYER,
                                               DUMPSTATE_AFTER_END_PATH}
                               THEN "path" ELSE "move"

(* C1 witness: a path start accepted after a close wrote a continuation move, *)
(* in a run where a close had been accepted after a line.                     *)
C1_Witness ==
    /\ prog = "emit1"
    /\ svgdump
    /\ Len(calls) = 1
    /\ calls[1].op = "PathStart"
    /\ calls[1].from = DUMPSTATE_AFTER_CLOSE_PATH
    /\ calls[1].ret = 0
    /\ calls[1].tok.op = "move"
    /\ svgDumpState = DUMPSTATE_AFTER_START_PATH


-----------------------------------------------------------------------------
(* A well-formed document: one header first, one footer last, no layer and  *)
(* no path left open, nothing written out of place.                         *)
WellFormed(m) ==
    m.ok /\ m.hdr = 1 /\ m.ftr = 1 /\ ~m.layer /\ m.path = "none"

Exit0 == prog \in {"ubvff1", "ubvff2"} /\ svgdump /\ pc = "done" /\ error = 0

C3_StateErrorAborts_Original ==
    (prog = "ubvff1" /\ svgdump /\ stateErr) =>
        (pc # "loop" /\ (pc = "done" => error = 1))

(* C4 as stated: in ubvff2 with SVG output, once an emit operation was       *)
(* invoked from a state it does not accept no later command is processed and *)
(* the run returns exit status 1.                                            *)
C4_StateErrorFatal_Original ==
    (prog = "ubvff2" /\ svgdump /\ stateErr) =>
        (pc # "loop" /\ (pc = "done" => error = 1))

(* The run read a stream that begins with the magic header and can end with  *)
(* the magic footer: the first command was the magic START_FILE and the loop *)
(* was not left because the file ended early (what follows a break is never  *)
(* read, so the stream may end with the footer).                             *)
Framed == prog = "ubvff1" /\ svgdump /\ frame.head /\ ~frame.eof

(* C5 as stated: decoding a Type 1 stream that begins with the magic header  *)
(* and ends with the magic footer, with SVG output, never invokes an emit    *)
(* operation from a state that operation does not accept.                    *)
C5_FramedNeverIllegal_Original == (Framed /\ pc = "done") => ~stateErr

(* C5: the magic framing does not make a stream legal.  In a stream that     *)
(* begins with the magic header, the commands of the magic footer raise no   *)
(* state error exactly when the footer's CLOSE_PATH is decoded in AfterLine; *)
(* then, unless a write fails, the five footer commands leave the emitter in *)
(* AfterFooter.  In any other state the CLOSE_PATH is a state error.         *)
C5_FooterLegalAfterLine ==
    (prog = "ubvff1" /\ svgdump /\ frame.head /\ frame.recent >= 1) =>
        /\ frame.err <=> frame.from # DUMPSTATE_AFTER_LINE
        /\ (frame.recent = Len(MagicFooter) /\ ~frame.io) =>
                (frame.from = DUMPSTATE_AFTER_LINE
                 /\ svgDumpState = DUMPSTATE_AFTER_FOOTER)

(* C5 witness: a framed stream was decoded to the end of its footer, which   *)
(* began in AfterLine, and the run returned 0.                               *)
C5_Witness ==
    /\ Framed
    /\ pc = "done"
    /\ error = 0
    /\ frame.recent = Len(MagicFooter)
    /\ frame.from = DUMPSTATE_AFTER_LINE
    /\ ~frame.err
    /\ svgDumpState = DUMPSTATE_AFTER_FOOTER

-----------------------------------------------------------------------------
(* The rounding rule as the specification states it: floor(n/d) when         *)
(* n mod d < d/4 (d/4 as the code computes it, an integer), else the         *)
(* quotient moved one further away from zero.                                *)
RoundRule(n, d) ==
    IF n % d < d \div 4 THEN n \div d
    ELSE IF n > 0 THEN CDiv(n, d) + 1 ELSE CDiv(n, d) - 1

(* C6 as stated: for d > 0 and every integer n, roundInt(n, d) is floor(n/d) when *)
(* n mod d < d/4 and otherwise the quotient moved one further away from zero *)
(* (this includes 0 < n < d, negative n, n mod d = d/4 and n mod d = d-1).   *)
C6_RoundIntRule_Original ==
    (prog = "roundInt" /\ output # <<>>) => output[1] = RoundRule(input.n, input.d)

-----------------------------------------------------------------------------
(* A patch function was called and acted: dumpSVGSetViewbox does nothing     *)
(* when SVG output is off.                                                   *)
PatchCalled ==
    /\ prog \in {"setViewbox", "dumpSVGSetViewbox"}
    /\ output # <<>>
    /\ prog = "dumpSVGSetViewbox" => svgdump

(* the 26 bytes at offsets 13..38 of the output *)
Field == SubSeq(fout.bytes, FieldOffset + 1, FieldOffset + FieldSize)

(* C7 as stated: a viewport patch that reports no failure has returned 0,    *)
(* changed no byte outside offsets 13..38 (nor the length of the output) and *)
(* left the write cursor where it was before the patch, for all values and   *)
(* signs of the four bounds.                                                 *)
C7_PatchFrame_Original ==
    (PatchCalled /\ output[1] # 1) =>
        LET orig == OrigFile(input.body) IN
        /\ output[1] = 0
        /\ Len(fout.bytes) = Len(orig.bytes)
        /\ \A i \in 1..Len(orig.bytes) :
              (i <= FieldOffset \/ i > FieldOffset + FieldSize) =>
                  fout.bytes[i] = orig.bytes[i]
        /\ fout.pos = orig.pos

(* the text the patch formats from its arguments *)
PatchText ==
    IF prog = "setViewbox"
    THEN ViewboxText(input.minx, input.miny, input.maxx, input.maxy)
    ELSE ViewboxText2(input.minx, input.miny, input.maxx, input.maxy)

(* C8 as stated: after a patch that returned 0 the 26-byte field is a        *)
(* complete attribute value: the whole formatted text, from its opening to   *)
(* its closing quote, and after it only spaces.                              *)
C8_FieldComplete_Original ==
    (PatchCalled /\ output[1] = 0) =>
        \E n \in 2..FieldSize :
            /\ n = Len(PatchText)
            /\ SubSeq(Field, 1, n) = PatchText
            /\ Field[n] = "\""
            /\ \A i \in (n + 1)..FieldSize : Field[i] = " "

-----------------------------------------------------------------------------
(* the entries of list with layer identifier l, in list order *)
OfLayer(list, l) == LET Is(e) == e.layernum = l IN SelectSeq(list, Is)

(* C9: sortDumpList is a stable sort.  For every Dump List of up to MaxList  *)
(* entries the list it leaves has the entries of the input, in               *)
(* non-decreasing layer identifier order, and the entries of each layer      *)
(* identifier are in the order they had in the input.                        *)
C9_StableSort ==
    (prog = "sortDumpList" /\ output # <<>>) =>
        /\ Len(dumpList) = Len(input)
        /\ \A i \in 1..(Len(dumpList) - 1) :
              dumpList[i].layernum <= dumpList[i + 1].layernum
        /\ \A l \in LayerNums : OfLayer(dumpList, l) = OfLayer(input, l)

(* C9 witness: a list was sorted that was out of order and holds two         *)
(* different entries of one layer identifier.                                *)
C9_Witness ==
    /\ prog = "sortDumpList"
    /\ output # <<>>
    /\ dumpList # input
    /\ \E i, j \in 1..Len(dumpList) :
          /\ i < j
          /\ dumpList[i].layernum = dumpList[j].layernum
          /\ dumpList[i].filenum # dumpList[j].filenum

-----------------------------------------------------------------------------
(* how many entries of list name the file n *)
CountFile(list, n) == LET Is(e) == e.filenum = n IN Len(SelectSeq(list, Is))

(* how many entries of list are e *)
CountEntry(list, e) == LET Is(x) == x = e IN Len(SelectSeq(list, Is))

(* how many times the token x was written to the bytes *)
CountToken(bytes, x) == LET Is(y) == y = x IN Len(SelectSeq(bytes, Is))

(* the run of vecass returned, its behaviour defined *)
AsmDone == prog = "vecass" /\ pc = "done"

(* the top-level call wrote the composite to its end and returned 0 *)
Assembled == AsmDone /\ error = 0 /\ output[1].closed

-----------------------------------------------------------------------------
(* a fragment the Dump List names has no viewBox that can be read *)
BadFragmentListed ==
    \E i \in 1..Len(dumpList) :
        LET n == dumpList[i].filenum IN
        n \in DOMAIN files.frag /\ files.frag[n].kind = "bad"

(* the most commands a command file of the domain holds *)
LongestBody ==
    CHOOSE n \in 0..MAX_DUMPLIST :
        /\ \E b \in GroupBodies : Len(b) = n
        /\ \A b \in GroupBodies : Len(b) <= n

(* the calls of processFile in a call tree of depth 0..MaxDepth in which     *)
(* every call makes at most LongestBody calls                                *)
RECURSIVE CallBound(_)
CallBound(d) == IF d = MaxDepth THEN 1 ELSE 1 + LongestBody * CallBound(d + 1)

(* C11: for every set of command files, cyclic ones included, no command     *)
(* file is opened at depth 10 or more and depth never exceeds 10; a call     *)
(* that reaches depth 10 returns 0, so a scan in which nothing else failed   *)
(* ends with depth 0, returns 0 and finishes the composite; and the          *)
(* top-level call terminates: it returns after at most CallBound(0) calls    *)
(* of processFile.                                                           *)
C11_DepthBounded ==
    (prog = "vecass" /\ pc # "start") =>
        /\ pc = "done"
        /\ output[1].maxOpen < MaxDepth
        /\ depth <= MaxDepth
        /\ output[1].opens + output[1].limit <= CallBound(0)
        /\ (output[1].limit > 0 /\ output[1].fails = 0 /\ ~BadFragmentListed) =>
              (error = 0 /\ depth = 0 /\ (output[1].open => Assembled))

(* C11 witness: a scan went down to the depth limit, opened a file at depth  *)
(* 9, and the run returned 0 with the composite finished.                    *)
C11_Witness ==
    /\ Assembled
    /\ output[1].limit > 0
    /\ output[1].maxOpen = MaxDepth - 1

-----------------------------------------------------------------------------
(* C12 as stated: when the only includes that failed are includes of files   *)
(* classified as not applicable, the top-level call that created the output  *)
(* still splices the collected fragments, patches the viewport and writes    *)
(* the footer.                                                               *)
C12_SkipHarmless_Original ==
    (/\ AsmDone
     /\ output[1].open
     /\ output[1].skips > 0
     /\ output[1].fails = output[1].skips
     /\ ~BadFragmentListed) =>
        (Assembled /\ output[1].patched)

(* The fragment an entry of the Dump List names, Missing if it cannot be     *)
(* opened.                                                                   *)
FragOf(e) == IF e.filenum \in DOMAIN files.frag THEN files.frag[e.filenum] ELSE Missing

RECURSIVE Splices(_, _)
Splices(list, i) ==
    IF i > Len(list) THEN <<>>
    ELSE LET g == FragOf(list[i])
         IN  IF g.kind = "svg" THEN <<"<g>\n", g.body, "</g>\n">> \o Splices(list, i + 1)
             ELSE Splices(list, i + 1)

DumpDone == prog = "dumpFromList" /\ output # <<>>

SomeMissing == \E i \in 1..Len(input.list) : FragOf(input.list[i]).kind = "missing"

NoneBad == \A i \in 1..Len(input.list) : FragOf(input.list[i]).kind # "bad"

(* C13: a Dump List entry whose fragment cannot be opened is passed over:    *)
(* with no unreadable fragment in the list, dumpFromList returns 0, the      *)
(* output after the header is the splice of every openable fragment, once    *)
(* per entry in sorted order, and the viewport field is patched.             *)
C13_MissingFragmentSkipped ==
    (DumpDone /\ SomeMissing /\ NoneBad) =>
        /\ output[1].ret = 0
        /\ dumpList = sortDumpList(input.list)
        /\ SubSeq(fout.bytes, Len(SvgHeader) + 1, Len(fout.bytes)) = Splices(dumpList, 1)
        /\ output[1].patched
        /\ SubSeq(fout.bytes, FieldOffset + 1, FieldOffset + FieldSize)
             = FieldBytes(ViewboxText(view.minX, view.minY, view.maxX, view.maxY))

C13_Witness ==
    /\ DumpDone /\ NoneBad
    /\ Len(dumpList) = 3
    /\ FragOf(dumpList[1]).kind = "missing"
    /\ FragOf(dumpList[2]).kind = "svg"
    /\ FragOf(dumpList[3]).kind = "svg"
    /\ dumpList[2].filenum # dumpList[3].filenum
    /\ output[1].ret = 0

Root == files.cmd[RootFile]

ShallowRoot == Root.kind = "file" /\ (Root.h0 = 1 \/ Root.h0 = 3)

(* C14: a top-level file whose first header word is 1 or 3 is skipped: the   *)
(* Dump List stays empty, no output is created and the top-level file is the *)
(* only file opened.                                                         *)
C14_ShallowSkipped ==
    (AsmDone /\ ShallowRoot) =>
        /\ dumpList = <<>>
        /\ leafRefs = <<>>
        /\ ~output[1].open
        /\ fout = NoFile
        /\ output[1].opens = 1
        /\ depth = 0
        /\ (Root.h0 = 3 => error = 1)
        /\ (Root.h0 = 1 /\ Root.h1 = 0 => error = 0)

C14_Witness ==
    /\ AsmDone /\ Root.kind = "file" /\ Root.h0 = 3 /\ Root.h1 = 0 /\ Root.h2 = 0
    /\ \E n \in CmdFiles : n # RootFile /\ Includes(Root, n) /\ files.cmd[n].kind = "file"
                                /\ files.cmd[n].h0 = 1
    /\ output[1].opens = 1
    /\ error = 1

Read2 == prog = "ubvff2" /\ pc # "start"

(* The run returned 1 from the checks: no command was read, no emit          *)
(* operation was called, the points file was not opened and no output was    *)
(* created.                                                                  *)
Rejected2 ==
    /\ pc = "done"
    /\ error = 1
    /\ cmdCounter = 0
    /\ mon = MonInit
    /\ svgDumpState = DUMPSTATE_BEGIN
    /\ ~output[1].pointsOpened
    /\ ~output[1].outCreated

(* C15 as stated: the command count is the third 16-bit word of the header, *)
(* after two reserved words; a file whose count is not above 0x0A or whose   *)
(* footer is not the fixed one is rejected before anything else happens.     *)
C15_ThirdWord_Original ==
    (Read2 /\ (input.words[3] <= MinCmdCount \/ ~FooterOk(input.footer))) => Rejected2

(* C15: the command count is the second 16-bit word of the header, between   *)
(* two reserved words; a file whose count is not above 0x0A, or whose footer *)
(* opcode is not 1, or one of whose footer reserved words is not zero, is    *)
(* rejected with exit status 1 before any command is read, before the points *)
(* file is opened and before any output is created.                          *)
C15_SecondWord ==
    (Read2 /\ (input.words[2] <= MinCmdCount \/ input.footer.cmd # 1 \/ input.footer.z1 # 0
                 \/ input.footer.z2 # 0 \/ input.footer.z3 # 0)) => Rejected2

C15_Witness ==
    /\ Read2 /\ svgdump /\ Rejected2
    /\ input.words = <<0, MinCmdCount, MaxCmdCount>>
    /\ FooterOk(input.footer)

(* The run read the terminator and finished the document with it: the       *)
(* footer is only written by END_FILE.                                       *)
Completed2 ==
    /\ Read2 /\ pc = "done" /\ output[1].ret = 0
    /\ svgdump /\ svgDumpState = DUMPSTATE_AFTER_FOOTER

(* C16 as stated: a difference between the commands consumed and the         *)
(* header's command count is a warning only; a run that read the terminator  *)
(* and completed emission returns 0.                                         *)
C16_MismatchIsWarning_Original == Completed2 => error = 0

(* The operand block of the CUBIC command just handled by ubvff1 in a state  *)
(* that accepts cubics, every read and every emit call of which succeeded    *)
Cubic1 == prog = "ubvff1" /\ output # <<>> /\ output[1].cmd = 8

(* C17: a CUBIC command of n points, handled with the emitter in a state     *)
(* that accepts cubics, whose reads all succeed and whose emit calls all     *)
(* succeed makes floor(n/3) calls of dumpSVGCubic, one per three points      *)
(* read, and writes floor(n/3) segments; the n mod 3 points left make none.  *)
C17_CubicGroups ==
    Cubic1 =>
        /\ svgdump
        /\ output[1].called = output[1].count \div 3
        /\ output[1].segments = output[1].count \div 3
        /\ output[1].count >= 3 => svgDumpState = DUMPSTATE_AFTER_LINE

C17_Witness ==
    /\ Cubic1 /\ svgdump
    /\ output[1].count % 3 # 0
    /\ output[1].segments = 1
    /\ svgDumpState = DUMPSTATE_AFTER_LINE

(* The operand block of the POINTS_CUBICS command just handled by ubvff2 in  *)
(* a state that accepts cubics, no read and no emit call of which failed     *)
Cubic2 == prog = "ubvff2" /\ Len(output) = 2

(* C18 as stated: every cubic operand block of n points, those of ubvff2     *)
(* with n not a multiple of three among them, emits floor(n/3) segments.     *)
C18_CubicFloor_Original ==
    Cubic2 => output[2].segments = output[2].count \div 3

(* ubvff1 has just handled END_LAYER with the emitter in AFTER_CLOSE_PATH    *)
EndLayerAfterClose ==
    /\ prog = "ubvff1" /\ output # <<>> /\ output[1].cmd = 2
    /\ output[1].calls[1].from = DUMPSTATE_AFTER_CLOSE_PATH

(* C19: END_LAYER decoded in AFTER_CLOSE_PATH first ends the path with       *)
(* neither fill nor stroke and then ends the layer; when both writes succeed *)
(* no call fails, the emitter is in AFTER_END_LAYER and the loop goes on.     *)
C19_EndLayerEndsPath ==
    EndLayerAfterClose =>
        LET cs == output[1].calls IN
        /\ cs[1].op = "PathEnd"
        /\ cs[1].err # "state"
        /\ ~HasErr(cs, "io") =>
              /\ Len(cs) = 2
              /\ cs[1].tok = Tok("pathEnd", "none", "none", 0)
              /\ cs[2].op = "LayerEnd"
              /\ cs[2].tok = Plain("layerEnd")
              /\ cs[1].ret = 0 /\ cs[2].ret = 0
              /\ svgDumpState = DUMPSTATE_AFTER_END_LAYER
              /\ pc = "loop"

C19_Witness ==
    /\ EndLayerAfterClose
    /\ Len(output[1].calls) = 2
    /\ svgDumpState = DUMPSTATE_AFTER_END_LAYER
    /\ pc = "loop"

(* ubvff1 has just read the END_FILE opcode *)
EndFileRead == prog = "ubvff1" /\ output # <<>> /\ output[1].cmd = 21

(* C20: once END_FILE is read the loop is left, whether or not the footer    *)
(* was written, and after the loop no opcode is read and no emit operation   *)
(* is called: the only step left is the exit, which leaves the emitter and   *)
(* the document as they are.                                                 *)
C20_EndFileEndsLoop ==
    /\ [](EndFileRead => pc = "post")
    /\ [][(prog = "ubvff1" /\ pc = "post") =>
             (pc' = "done" /\ UNCHANGED <<svgDumpState, mon, frame, stateErr>>)]_vars

C20_Witness ==
    /\ EndFileRead /\ pc = "post" /\ svgdump
    /\ output[1].calls[1].ret # 0
    /\ svgDumpState # DUMPSTATE_AFTER_FOOTER

(* The last command of the file is a terminator that passes the footer check *)
(* and words follow it.                                                      *)
TrailingWords2 ==
    /\ Read2 /\ HeaderOk(input.words)
    /\ input.last[1] = 1 /\ input.last[3] = 0 /\ input.last[4] = 0 /\ input.last[5] = 0
    /\ input.extra # <<>>

(* C21 as stated: bytes after the terminator only produce a warning; the     *)
(* file is decoded as it is without them, so it is not refused as having a   *)
(* bad footer.                                                               *)
C21_TrailingBytesHarmless_Original ==
    TrailingWords2 => output[1].msg # "footer check failed"

(* C22: in ubvff1 an opcode that is not in cmdTable (17 stands for 0x11 to   *)
(* 0x14, 22 for the opcodes above 0x15) is skipped: the step that handles it *)
(* reads no operand (no read can come back short), calls no emit operation,  *)
(* leaves the emitter state, the colors, the stroke width, the title and the *)
(* header as they were, and the loop goes on with the next word.             *)
UnknownOpcodes == {17, 22}

SkippedNow == output' # <<>> /\ output'[1].cmd \in UnknownOpcodes

C22_UnknownOpcodeSkipped ==
    [][(InLoop1 /\ SkippedNow) =>
           /\ output'[1].calls = <<>>
           /\ ~output'[1].eof
           /\ pc' = "loop"
           /\ UNCHANGED <<svgDumpState, stateErr, mon, error>>
           /\ UNCHANGED dataVars]_vars

(* an unknown opcode was skipped in the middle of a path, and the path went on *)
C22_Witness ==
    /\ InLoop1
    /\ output # <<>> /\ output[1].cmd = 22
    /\ svgDumpState = DUMPSTATE_AFTER_LINE
    /\ color # "unset"

(* C23: in ubvff1 a short operand read aborts the decoding at that point: no *)
(* emit operation is invoked after it.  The case followed is the read of a   *)
(* title character of START_LAYER.                                           *)
ShortTitleRead == prog = "ubvff1" /\ output # <<>> /\ output[1].cmd = 1

C23_ShortReadAborts_Original == ShortTitleRead => output[1].calls = <<>>

(* C24 as stated, for ubvff1: a run in which a read came back short (the     *)
(* stream ended before the terminator, or inside a command) returns exit     *)
(* status 1, whether or not SVG output was requested.                        *)
ShortRun1 == prog = "ubvff1" /\ pc = "done" /\ frame.eof

C24_FailureExitsOne_Original == ShortRun1 => error = 1

(* C25 as stated, for ubvff2: when the run returns, every file handle it     *)
(* opened (command file fin1, points file fin2, output file fout) has been   *)
(* closed, on every exit path.                                               *)
Returned2 == Read2 /\ pc = "done"

C25_HandlesClosed_Original == Returned2 => output[1].open = {}

(* C26: in ubvff1 the end-path opcodes call dumpSVGEndPath with              *)
(* (hasFill, hasStroke) = (false, true) for 0x09, (true, false) for 0x0A and *)
(* (true, true) for 0x0B, together with the current stroke width and, where  *)
(* they have been set, the current fill color and stroke color.              *)
EndPathHandled == prog = "ubvff1" /\ output # <<>> /\ output[1].cmd \in {9, 10, 11}

C26_EndPathFlags ==
    EndPathHandled =>
        /\ <<output[1].hasFill, output[1].hasStroke>> =
              CASE output[1].cmd = 9 -> <<FALSE, TRUE>>
                [] output[1].cmd = 10 -> <<TRUE, FALSE>>
                [] output[1].cmd = 11 -> <<TRUE, TRUE>>
        /\ output[1].width = strokeWidth
        /\ color # "unset" => output[1].fill = color
        /\ strokeColor # "unset" => output[1].stroke = strokeColor

(* a fill-only path end (0x0A) accepted after a line, both colors set *)
C26_Witness ==
    /\ EndPathHandled /\ output[1].cmd = 10
    /\ svgdump /\ svgDumpState = DUMPSTATE_AFTER_END_PATH
    /\ color # "unset" /\ strokeColor # "unset" /\ color # strokeColor

(* The run with SVG output has returned after reading at least the first n   *)
(* commands of the stream s, each in full, no write having failed.           *)
Decoded(s, n) ==
    /\ prog = "ubvff1" /\ svgdump /\ pc = "done"
    /\ input.follow = s
    /\ output # <<>> /\ ~output[1].io /\ output[1].pos >= n

Ops(toks) == [i \in 1..Len(toks) |-> toks[i].op]

MinimalOps == <<"header", "layerStart", "path", "line", "pathEnd", "layerEnd">>

(* C27 as stated: the minimal stream ended by the magic footer is decoded    *)
(* without a state error, ends in AFTER_FOOTER and returns 0.                *)
C27_MinimalStreamAccepted_Original ==
    Decoded(FooterStream, Len(MinimalStream) + 1) =>
        (~stateErr /\ svgDumpState = DUMPSTATE_AFTER_FOOTER /\ error = 0)

(* C27: the minimal stream (magic START_FILE, START_LAYER "A", MOVE_TO, LINE *)
(* with one point, END_PATH_SO, END_LAYER) ended by END_FILE alone is        *)
(* decoded without a state error, ends in AFTER_FOOTER with exit status 0    *)
(* and writes one layer holding one path with one move and one line, ended   *)
(* with a stroke color and fill none.  Ended by the magic footer, the same   *)
(* stream meets a state error at the footer's CLOSE_PATH: the run stops      *)
(* there in AFTER_END_LAYER, the document has no footer and the exit status  *)
(* is 1.                                                                     *)
C27_MinimalStreamDecoded ==
    /\ Decoded(ShortStream, Len(ShortStream)) =>
          /\ ~stateErr /\ svgDumpState = DUMPSTATE_AFTER_FOOTER /\ error = 0
          /\ Ops(output[1].toks) = MinimalOps \o <<"footer">>
          /\ output[1].toks[5].fill = "none"
          /\ output[1].toks[5].stroke \in Colors
          /\ title[1] = 65 /\ title[2] = 0
    /\ Decoded(FooterStream, Len(MinimalStream) + 1) =>
          /\ output[1].pos = Len(MinimalStream) + 1
          /\ stateErr /\ svgDumpState = DUMPSTATE_AFTER_END_LAYER /\ error = 1
          /\ Ops(output[1].toks) = MinimalOps

(* the minimal stream ended by END_FILE has been decoded to its end *)
C27_Witness == Decoded(ShortStream, Len(ShortStream)) /\ WellFormed(mon)

(* a run of ubvff2 with the cursors watched, past the prologue *)
CursorRun == Read2 /\ output[1].watch

(* the command just handled asked the points file for words and got them all *)
ReadInFull(r) == r.want > 0 /\ r.got = r.want

(* C28: in ubvff2 the loop starts with the points cursor at byte 4 and the   *)
(* command cursor at byte 14; every command read in full moves the command   *)
(* cursor by exactly 10 bytes whatever the opcode; a MOVE_TO whose point is  *)
(* read moves the points cursor by one point (8 bytes), a POINTS_LINES or    *)
(* POINTS_CUBICS with count n whose points are read by n points, any other   *)
(* command not at all; neither cursor ever moves backward.                   *)
C28_PointCursor ==
    /\ []((CursorRun /\ pc = "loop" /\ cmdCounter = 1) =>
              (output[1].ppos = 4 /\ output[1].cpos = 14))
    /\ [][(CursorRun /\ pc = "loop") =>
              LET o == output[1]
                  n == output'[1]
                  r == output'[2]
              IN  /\ n.cpos >= o.cpos /\ n.ppos >= o.ppos
                  /\ r.cread = 5 => n.cpos = o.cpos + 10
                  /\ (r.cmd = 2 /\ ReadInFull(r)) => n.ppos = o.ppos + 8
                  /\ (r.cmd \in {3, 4} /\ ReadInFull(r)) => n.ppos = o.ppos + 8 * r.count
                  /\ r.cmd \notin {2, 3, 4} => n.ppos = o.ppos]_vars

(* a POINTS_CUBICS of three points has been read after a MOVE_TO and another *)
(* command: the points cursor is four points past the header                 *)
C28_Witness ==
    /\ CursorRun /\ Len(output) = 2
    /\ output[2].cmd = 4 /\ output[2].count = 3 /\ ReadInFull(output[2])
    /\ output[1].ppos = 4 + 8 * 4
    /\ output[1].cpos = 14 + 10 * 3

(* The path just ended (sub-code 2) had the sub-event 3 and no other before  *)
(* it, and the path end was written; the stroke flag had been set by the     *)
(* stream, in an earlier path.                                               *)
EndedUnpainted ==
    /\ Read2 /\ output[1].paths /\ Len(output) = 2
    /\ output[2].cmd = 7 /\ output[2].sub = 2 /\ output[2].tok.op # ""
    /\ output[2].seen = {3}
    /\ hasStroke.set

(* C29 as stated: in ubvff2 a path for which the END_PATH sub-event 3 was    *)
(* seen and which is then finalized (sub-code 2) is written with fill none   *)
(* and stroke none, whatever sub-events earlier paths carried.               *)
C29_NoStrokeNoFill_Original ==
    EndedUnpainted => (output[2].tok.fill = "none" /\ output[2].tok.stroke = "none")

(* ubvff2 with SVG output has written a path opener and nothing has been     *)
(* drawn in that path yet                                                    *)
PathJustStarted2 == Read2 /\ svgdump /\ mon.path = "opened"

(* C30 as stated, for the Type 2 emitter: a close is accepted only after a   *)
(* line or cubic, so a path in which nothing was drawn is never closed.      *)
C30_CloseOnlyAfterLine_Original ==
    PathJustStarted2 => svgDumpState # DUMPSTATE_AFTER_CLOSE_PATH

(* the fragments of the Dump List that dumpFromList could open *)
OpenedFrags == {g \in {FragOf(dumpList[i]) : i \in 1..Len(dumpList)} : g.kind = "svg"}

MinOf(S) == CHOOSE m \in S : \A x \in S : m <= x

MaxOf(S) == CHOOSE m \in S : \A x \in S : m >= x

(* the composite header with the viewport field holding the given bounds *)
HeaderWith(v) ==
    [i \in 1..Len(SvgHeader) |->
        IF i > FieldOffset /\ i <= FieldOffset + FieldSize
        THEN FieldBytes(ViewboxText(v.minX, v.minY, v.maxX, v.maxY))[i - FieldOffset]
        ELSE SvgHeader[i]]

(* C31: when dumpFromList returns 0, the bounds are the fold of the box      *)
(* (0, 0, 1, 1) with the viewport of every fragment that was opened (the     *)
(* least of 0 and every x1 and y1, the greatest of 1 and every x2 and y2),   *)
(* the list is in sorted order, the output is the header with these bounds   *)
(* in the viewport field followed by the fragments in list order, each       *)
(* between one group opener and one group closer, and the write cursor is    *)
(* at the end of the output, where the caller appends the footer.            *)
C31_BoundsAreFold ==
    (DumpDone /\ output[1].ret = 0) =>
        /\ view.minX = MinOf({0} \cup {g.x1 : g \in OpenedFrags})
        /\ view.minY = MinOf({0} \cup {g.y1 : g \in OpenedFrags})
        /\ view.maxX = MaxOf({1} \cup {g.x2 : g \in OpenedFrags})
        /\ view.maxY = MaxOf({1} \cup {g.y2 : g \in OpenedFrags})
        /\ \A i \in 1..Len(dumpList) - 1 : dumpList[i].layernum <= dumpList[i + 1].layernum
        /\ fout.bytes = HeaderWith(view) \o Splices(dumpList, 1)
        /\ fout.pos = Len(fout.bytes)

(* both fragments were spliced, the second one first: each bound but minY    *)
(* comes from a fragment                                                     *)
C31_Witness ==
    /\ DumpDone /\ output[1].ret = 0
    /\ Len(dumpList) = 2
    /\ dumpList[1].filenum = 2 /\ dumpList[2].filenum = 1
    /\ Cardinality(OpenedFrags) = 2
    /\ view = [minX |-> -20, minY |-> 0, maxX |-> 100, maxY |-> 200]

(* a run of ubvff2 with the points read watched, past the prologue *)
ViewRun == Read2 /\ output[1].views

(* C32: in ubvff2, after any sequence of point reads the accumulator is the  *)
(* fold of (0, 0, 0x10000, 0x10000) with every point that a read returned in *)
(* full: viewMinX is the least of 0 and every x read, viewMaxX the greatest  *)
(* of 0x10000 and every x read, likewise for Y, whether or not the emit      *)
(* operation accepted the point; a short read adds nothing; and the least    *)
(* value never exceeds the greatest.                                         *)
C32_ViewIsFold ==
    ViewRun =>
        /\ view.minX = MinOf({0} \cup output[1].xs)
        /\ view.maxX = MaxOf({65536} \cup output[1].xs)
        /\ view.minY = MinOf({0} \cup output[1].ys)
        /\ view.maxY = MaxOf({65536} \cup output[1].ys)
        /\ view.minX <= view.maxX
        /\ view.minY <= view.maxY

(* the first command, a POINTS_LINES before any MOVE_TO, was refused by the  *)
(* emit operation and every bound has moved                                  *)
C32_Witness ==
    /\ ViewRun
    /\ cmdCounter = 2 /\ stateErr
    /\ view = [minX |-> -65536, minY |-> -65536, maxX |-> 131072, maxY |-> 196608]

(* a stroked path end was written by the command just handled (sub-code 2) *)
EndedStroked ==
    /\ Read2 /\ output[1].ends /\ Len(output) = 2
    /\ output[2].cmd = 7 /\ output[2].sub = 2 /\ output[2].tok.op # ""
    /\ output[2].tok.stroke # "none"

C34_ErrorAndDisabledFrame ==
    [][(prog \in {"emit1", "emit2"}) =>
          LET c == calls'[1] IN
          /\ c.err = "state" =>
                (c.ret = 1 /\ svgDumpState' = svgDumpState /\ c.tok.op = "" /\ mon' = mon)
          /\ ~svgdump =>
                (/\ c.ret = 0 /\ c.tok.op = "" /\ mon' = mon
                 /\ svgDumpState = DUMPSTATE_BEGIN /\ svgDumpState' = DUMPSTATE_BEGIN)]_vars

(* the Type 2 emitter has refused an operation in the middle of a path *)
C34_Witness ==
    /\ prog = "emit2" /\ svgdump
    /\ calls # <<>> /\ calls[1].err = "state" /\ calls[1].op = "Footer"
    /\ svgDumpState = DUMPSTATE_AFTER_LINE
    /\ mon.path = "drawn"

(* The points of operand data the CUBIC command just handled consumed: each  *)
(* turn of its loop reads one cubic, three points, before the one call of    *)
(* dumpSVGCubic it makes, and in the block recorded no read was short and no *)
(* call failed.                                                              *)
CubicPointsRead == 3 * output[1].called

(* C35 as stated: in ubvff1, after a CUBIC command with point count n whose  *)
(* reads succeed the decoder has consumed exactly n points of operand data,  *)
(* for every n, those not divisible by 3 among them.                         *)
C35_CubicConsumesAll_Original ==
    Cubic1 => CubicPointsRead = output[1].count

(* C36 as stated: on every return from processFile the depth counter equals  *)
(* its value when the call was entered; for the top-level call, entered by   *)
(* main with depth 0, it is 0 on return (and at the finalization check       *)
(* before it, after which depth is not assigned).                            *)
C36_DepthRestored_Original ==
    AsmDone => depth = 0

(* the footer is the last thing in the output *)
FooterWritten ==
    /\ Len(fout.bytes) > Len(SvgHeader)
    /\ fout.bytes[Len(fout.bytes)] = "</svg>\n"

(* C37 as stated: whenever the top-level processFile call has created the    *)
(* output and written the composite header and then returns 0, the viewport  *)
(* has been patched, the footer written and the output closed.               *)
C37_ZeroMeansFinished_Original ==
    (AsmDone /\ output[1].open /\ error = 0) =>
        (output[1].patched /\ output[1].closed /\ FooterWritten)

(* C38 as stated: every store that addToDumpList makes goes to an index      *)
(* below MAX_DUMPLIST, for every include graph.                              *)
C38_StoresInBounds_Original ==
    (prog = "includeLeaf" /\ output # <<>>) =>
        (output[1].index < MAX_DUMPLIST /\ ~output[1].ub)

(* C39 as stated: for every record read through bo_fread a little-endian     *)
(* host and a big-endian host obtain the same field values: the same 32-bit  *)
(* value, the same Type 2 coordinate and, of the 4-byte Type 1 color record, *)
(* the same r, g, b, unused.                                                 *)
C39_HostIndependent_Original ==
    (prog = "bo_fread" /\ output # <<>>) =>
        /\ output[1]["little"].word = output[1]["big"].word
        /\ output[1]["little"].coord = output[1]["big"].coord
        /\ output[1]["little"].color = output[1]["big"].color

(* the 32-bit values read are the same on both hosts *)
WordsAgree ==
    (prog = "bo_fread" /\ output # <<>>) =>
        /\ output[1]["little"].word = output[1]["big"].word
        /\ output[1]["little"].coord = output[1]["big"].coord

(* the command just handled was an END_PATH with sub-code 2 and its path end *)
(* was written                                                               *)
PathEndWritten ==
    /\ Read2 /\ output[1].ends /\ Len(output) = 2
    /\ output[2].cmd = 7 /\ output[2].sub = 2 /\ output[2].tok.op # ""

(* C40 as stated: in ubvff2, at every END_PATH sub-event 2 both hasFill and  *)
(* hasStroke have been assigned by an earlier END_PATH sub-event of the run: *)
(* no path end is written from a flag that was never set.                    *)
C40_FlagsAssigned_Original ==
    PathEndWritten => (hasFill.set /\ hasStroke.set)

====
